---- MODULE Spec2Model ----
(***************************************************************************)
(* Swiss transit explorer: connection normalisation (src/src/api/          *)
(* transport.ts), reliability scoring (src/src/insights/reliability.ts)    *)
(* and weather risk estimation (src/src/insights/weather.ts).              *)
(*                                                                         *)
(* Conventions of the model                                                *)
(*  - A JavaScript string that the code inspects character by character    *)
(*    (timestamps, durations, line names) is a sequence of one-character   *)
(*    strings.  Station names, which the code only copies and compares,    *)
(*    are TLA+ strings.                                                    *)
(*  - An optional property of a JavaScript object is a field that is in    *)
(*    the DOMAIN of the record only when the object carries it.            *)
(*  - Penalties and scores are counted in hundredths (0.35 is 35).         *)
(*  - A timestamp is written D"T"hh":"mm":"ss, D the day of the week that  *)
(*    starts on Sunday 2026-02-01 (D = 1 is Sunday): the constant prefix   *)
(*    "2026-02-0" and the zone suffix of the provider's format are left    *)
(*    out.  Date.getTime() is counted in seconds from the start of that    *)
(*    week.                                                                *)
(***************************************************************************)
EXTENDS Integers, Sequences, FiniteSets, TLC

VARIABLES
    relLegs,        \* calculateReliability: argument legs
    relDeparture,   \* calculateReliability: argument departureTime
    relOut,         \* calculateReliability: NotCalled, or what the call returned
    durIn,          \* parseDuration: argument duration
    durOut,         \* parseDuration: NotCalled, or what the call returned
    normSections,   \* normalizeLegs: argument sections
    normOut,        \* normalizeLegs: NotCalled, or what the call returned
    connProvider,   \* findConnections: what the provider answers to the next request
    connOut,        \* findConnections: NotCalled, or the last call (response, result)
    connPrev,       \* findConnections: NotCalled, or the call before the last
    wxNow,          \* weather: Date.now()
    wxCache,        \* weather: the module's cache, key -> { data, expires }
    wxHeap,         \* weather: the WeatherSample objects allocated so far
    wxCall,         \* getWeatherInsights: NoCall, or the call whose lookups are on their way
    wxOut,          \* getWeatherInsights: NotCalled, or what the last settled call left
    wxPrev,         \* getWeatherInsights: NotCalled, or the same of the call before
    disStation,     \* checkDisruptions: argument stationName
    disCall,        \* checkDisruptions: DisNoCall, or the call that awaits a request
    disOut          \* checkDisruptions: NotCalled, or what the call returned

relVars == <<relLegs, relDeparture, relOut>>
durVars == <<durIn, durOut>>
normVars == <<normSections, normOut>>
connVars == <<connProvider, connOut, connPrev>>
wxVars == <<wxNow, wxCache, wxHeap, wxCall, wxOut, wxPrev>>
disVars == <<disStation, disCall, disOut>>
vars == <<relVars, durVars, normVars, connVars, wxVars, disVars>>

(***************************************************************************)
(* Bounds of the model.                                                    *)
(***************************************************************************)
MaxLegs == 3
MaxDurLen == 4
MaxSections == 2
MaxBatch == 2
MaxTicks == 3
TicksPerTtl == 3

(***************************************************************************)
(* JavaScript values.                                                      *)
(***************************************************************************)
\* The number NaN: an integer no computation of the model produces.
NaN == 0 - 1000000

\* The value undefined where a string is expected; no string of characters equals it.
Undefined == <<"undefined">>

NotCalled == [called |-> FALSE]

IsNaN(x) == x = NaN

\* a < b, a >= b ... of JavaScript numbers: false as soon as an operand is NaN.
JsLt(a, b) == ~IsNaN(a) /\ ~IsNaN(b) /\ a < b
JsGt(a, b) == ~IsNaN(a) /\ ~IsNaN(b) /\ a > b
JsGe(a, b) == ~IsNaN(a) /\ ~IsNaN(b) /\ a >= b
JsLe(a, b) == ~IsNaN(a) /\ ~IsNaN(b) /\ a <= b

\* a - b of JavaScript numbers.
JsSub(a, b) == IF IsNaN(a) \/ IsNaN(b) THEN NaN ELSE a - b

\* Truthiness of a string value: undefined and "" are falsy.
Truthy(s) == s # Undefined /\ s # <<>>

\* a || b on string values.
OrElse(a, b) == IF Truthy(a) THEN a ELSE b

Min(a, b) == IF a < b THEN a ELSE b
Max(a, b) == IF a > b THEN a ELSE b

Digits == {"0", "1", "2", "3", "4", "5", "6", "7", "8", "9"}

DigitChars == <<"0", "1", "2", "3", "4", "5", "6", "7", "8", "9">>

DigitVal(c) == (CHOOSE i \in 1..10 : DigitChars[i] = c) - 1

\* parseInt of a string of one or more decimal digits.
RECURSIVE ParseInt(_)
ParseInt(s) ==
    IF Len(s) = 0 THEN 0
    ELSE 10 * ParseInt(SubSeq(s, 1, Len(s) - 1)) + DigitVal(s[Len(s)])

\* Math.round(secs / 60): the nearest integer, a half rounded up.
RoundMinutes(secs) == IF IsNaN(secs) THEN NaN ELSE (secs + 30) \div 60

(***************************************************************************)
(* Timestamps.                                                             *)
(***************************************************************************)
TwoDigits(n) == <<DigitChars[(n \div 10) + 1], DigitChars[(n % 10) + 1]>>

\* The text of the timestamp of day d (1 = Sunday .. 7 = Saturday) at hh:mm:ss.
IsoText(d, hh, mm, ss) ==
    <<DigitChars[d + 1], "T">> \o TwoDigits(hh) \o <<":">> \o TwoDigits(mm)
        \o <<":">> \o TwoDigits(ss)

IsTimestamp(s) ==
    /\ s # Undefined
    /\ Len(s) = 10
    /\ s[2] = "T" /\ s[5] = ":" /\ s[8] = ":"
    /\ \A i \in {1, 3, 4, 6, 7, 9, 10} : s[i] \in Digits

\* new Date(s).getTime(), in seconds; NaN for "" and undefined (Invalid Date).
DateGetTime(s) ==
    IF IsTimestamp(s)
    THEN (DigitVal(s[1]) - 1) * 86400 + ParseInt(SubSeq(s, 3, 4)) * 3600
             + ParseInt(SubSeq(s, 6, 7)) * 60 + ParseInt(SubSeq(s, 9, 10))
    ELSE NaN

\* new Date(s).getDay(): 0 is Sunday.
DateGetDay(s) == IF IsTimestamp(s) THEN (DigitVal(s[1]) - 1) % 7 ELSE NaN

DateGetHours(s) == IF IsTimestamp(s) THEN ParseInt(SubSeq(s, 3, 4)) ELSE NaN

DateGetMinutes(s) == IF IsTimestamp(s) THEN ParseInt(SubSeq(s, 6, 7)) ELSE NaN

(***************************************************************************)
(* reliability.ts                                                          *)
(***************************************************************************)
BIG_STATIONS ==
    {"Zürich HB", "Bern", "Basel SBB", "Lausanne", "Genève",
     "Luzern", "Winterthur", "Olten", "Zürich Flughafen"}

\* The station names of the model.
StationNames == {"Thun", "Bern", "bern Wankdorf", "Olten", "Zürich Oerlikon", "Spiez"}

\* name.toLowerCase().includes(s.toLowerCase()) on the station names of the model.
LowerIncludes(name, s) ==
    \/ name = "Bern" /\ s = "Bern"
    \/ name = "bern Wankdorf" /\ s = "Bern"
    \/ name = "Olten" /\ s = "Olten"

isBigStation(name) == \E s \in BIG_STATIONS : LowerIncludes(name, s)

TransferPenaltyUnit == 12
TightPenalty == 35
ShortPenalty == 20
SilentPenalty == 10
StationPenalty == 8
PeakPenalty == 8
DelayPenalty == 5
TightMargin == 4
ShortMargin == 6
SilentMargin == 8
DelayThreshold == 3
MaxReasons == 3
LowRiskScore == 75
MediumRiskScore == 55

\* isPeakTime with the bounds of the two windows left out.
isPeakTimeExclusive(dateStr) ==
    LET day == DateGetDay(dateStr)
        time == DateGetHours(dateStr) * 60 + DateGetMinutes(dateStr)
    IN  IF IsNaN(day) THEN FALSE
        ELSE IF day = 0 \/ day = 6 THEN FALSE
        ELSE (time > 420 /\ time < 540) \/ (time > 990 /\ time < 1110)

\* isPeakTime: time = hour + minute / 60 is compared in minutes of the day.
isPeakTime(dateStr) ==
    LET day == DateGetDay(dateStr)
        time == DateGetHours(dateStr) * 60 + DateGetMinutes(dateStr)
    IN  IF IsNaN(day) THEN FALSE
        ELSE IF day = 0 \/ day = 6 THEN FALSE
        ELSE (time >= 420 /\ time <= 540) \/ (time >= 990 /\ time <= 1110)

HasCode(reasons, code) == \E k \in 1..Len(reasons) : reasons[k].code = code

\* reasons.sort((a, b) => b.penalty - a.penalty): stable, largest penalty first.
RECURSIVE SortInsert(_, _)
SortInsert(sorted, r) ==
    IF Len(sorted) = 0 THEN <<r>>
    ELSE IF sorted[Len(sorted)].penalty >= r.penalty THEN Append(sorted, r)
    ELSE Append(SortInsert(SubSeq(sorted, 1, Len(sorted) - 1), r), sorted[Len(sorted)])

\* SortByPenaltyDesc without the sort: the reasons in the order pushed.
ReasonsUnsorted(reasons) == reasons

RECURSIVE SortByPenaltyDesc(_)
SortByPenaltyDesc(reasons) ==
    IF Len(reasons) = 0 THEN <<>>
    ELSE SortInsert(SortByPenaltyDesc(SubSeq(reasons, 1, Len(reasons) - 1)),
                    reasons[Len(reasons)])

\* array.slice(0, n)
Slice0(s, n) == SubSeq(s, 1, Min(n, Len(s)))

\* TransferCountStep that counts the changes between rides, walks left out.
TransferCountStepRides(legs) ==
    LET transfers == Cardinality({i \in 1..Len(legs) : legs[i].type = "ride"}) - 1
    IN  IF transfers > 0
        THEN [totalPenalty |-> TransferPenaltyUnit * transfers,
              reasons |-> <<[code |-> "transfers", label |-> <<"transfers", transfers>>,
                             penalty |-> TransferPenaltyUnit * transfers]>>,
              transferRisks |-> <<>>, transferPenalties |-> <<>>,
              stationPenalty |-> 0, peakPenalty |-> 0, delayPenalty |-> 0]
        ELSE [totalPenalty |-> 0, reasons |-> <<>>, transferRisks |-> <<>>,
              transferPenalties |-> <<>>,
              stationPenalty |-> 0, peakPenalty |-> 0, delayPenalty |-> 0]

\* Lines 48-57: the transfer-count penalty.
TransferCountStep(legs) ==
    LET transfers == Len(legs) - 1
    IN  IF transfers > 0
        THEN [totalPenalty |-> TransferPenaltyUnit * transfers,
              reasons |-> <<[code |-> "transfers", label |-> <<"transfers", transfers>>,
                             penalty |-> TransferPenaltyUnit * transfers]>>,
              transferRisks |-> <<>>, transferPenalties |-> <<>>,
              stationPenalty |-> 0, peakPenalty |-> 0, delayPenalty |-> 0]
        ELSE [totalPenalty |-> 0, reasons |-> <<>>, transferRisks |-> <<>>,
              transferPenalties |-> <<>>,
              stationPenalty |-> 0, peakPenalty |-> 0, delayPenalty |-> 0]

\* MarginMin reading the planned arrival only.
MarginMinPlanned(legs, i) ==
    RoundMinutes(JsSub(DateGetTime(legs[i + 1].from.timePlanned),
                       DateGetTime(legs[i].to.timePlanned)))

\* Lines 60-62: the margin of the transfer from leg i to leg i + 1.
MarginMin(legs, i) ==
    LET to == legs[i].to
        arrivalTime ==
            DateGetTime(OrElse(IF "timeActual" \in DOMAIN to THEN to.timeActual ELSE Undefined,
                               to.timePlanned))
        departureTimeNext == DateGetTime(legs[i + 1].from.timePlanned)
    IN  RoundMinutes(JsSub(departureTimeNext, arrivalTime))

\* MarginClass with the thresholds included (marginMin <= 4, <= 6, <= 8).
MarginClassInclusive(marginMin, transferStation) ==
    IF JsLe(marginMin, TightMargin)
    THEN [transferPenalty |-> TightPenalty, riskLevel |-> "high",
          reasons |-> <<[code |-> "tight_transfer",
                         label |-> <<"min transfer at", marginMin, transferStation>>,
                         penalty |-> TightPenalty]>>]
    ELSE IF JsLe(marginMin, ShortMargin)
    THEN [transferPenalty |-> ShortPenalty, riskLevel |-> "medium",
          reasons |-> <<[code |-> "short_transfer",
                         label |-> <<"min transfer", marginMin>>,
                         penalty |-> ShortPenalty]>>]
    ELSE IF JsLe(marginMin, SilentMargin)
    THEN [transferPenalty |-> SilentPenalty, riskLevel |-> "low", reasons |-> <<>>]
    ELSE [transferPenalty |-> 0, riskLevel |-> "low", reasons |-> <<>>]

\* Lines 67-89: the penalty, the risk level and the reason of one margin.
MarginClass(marginMin, transferStation) ==
    IF JsLt(marginMin, TightMargin)
    THEN [transferPenalty |-> TightPenalty, riskLevel |-> "high",
          reasons |-> <<[code |-> "tight_transfer",
                         label |-> <<"min transfer at", marginMin, transferStation>>,
                         penalty |-> TightPenalty]>>]
    ELSE IF JsLt(marginMin, ShortMargin)
    THEN [transferPenalty |-> ShortPenalty, riskLevel |-> "medium",
          reasons |-> <<[code |-> "short_transfer",
                         label |-> <<"min transfer", marginMin>>,
                         penalty |-> ShortPenalty]>>]
    ELSE IF JsLt(marginMin, SilentMargin)
    THEN [transferPenalty |-> SilentPenalty, riskLevel |-> "low", reasons |-> <<>>]
    ELSE [transferPenalty |-> 0, riskLevel |-> "low", reasons |-> <<>>]

\* TransferRiskEntry naming the arrival stop of leg i on both sides.
TransferRiskEntrySameStop(legs, i, marginMin, riskLevel, bigStation) ==
    [fromStation |-> legs[i].to.name,
     toStation |-> legs[i].to.name,
     marginMinutes |-> marginMin,
     riskLevel |-> riskLevel,
     isBigStation |-> bigStation]

\* Lines 105-111: the entry pushed for the transfer from leg i to leg i + 1.
TransferRiskEntry(legs, i, marginMin, riskLevel, bigStation) ==
    [fromStation |-> legs[i].to.name,
     toStation |-> legs[i + 1].from.name,
     marginMinutes |-> marginMin,
     riskLevel |-> riskLevel,
     isBigStation |-> bigStation]

\* Lines 59-112: one turn of the loop over the transfers.
TransferStep(legs, i, acc) ==
    LET transfers == Len(legs) - 1
        marginMin == MarginMin(legs, i)
        transferStation == legs[i].to.name
        bigStation == isBigStation(transferStation)
        cls == MarginClass(marginMin, transferStation)
        reasons1 == acc.reasons \o cls.reasons
        big == bigStation /\ transfers > 0
        reasons2 ==
            IF big /\ ~HasCode(reasons1, "big_station")
            THEN Append(reasons1, [code |-> "big_station",
                                   label |-> <<"Large station transfer">>,
                                   penalty |-> StationPenalty])
            ELSE reasons1
    IN  [totalPenalty |-> acc.totalPenalty + (IF big THEN StationPenalty ELSE 0)
                              + cls.transferPenalty,
         reasons |-> reasons2,
         transferRisks |-> Append(acc.transferRisks,
             TransferRiskEntry(legs, i, marginMin, cls.riskLevel, bigStation)),
         transferPenalties |-> Append(acc.transferPenalties, cls.transferPenalty),
         stationPenalty |-> acc.stationPenalty + (IF big THEN StationPenalty ELSE 0),
         peakPenalty |-> acc.peakPenalty,
         delayPenalty |-> acc.delayPenalty]

RECURSIVE TransferLoop(_, _, _)
TransferLoop(legs, i, acc) ==
    IF i < Len(legs) THEN TransferLoop(legs, i + 1, TransferStep(legs, i, acc)) ELSE acc

\* Lines 114-122: the peak-time penalty.
PeakStep(departureTime, acc) ==
    IF isPeakTime(departureTime)
    THEN [acc EXCEPT !.totalPenalty = @ + PeakPenalty,
                     !.peakPenalty = @ + PeakPenalty,
                     !.reasons = Append(@, [code |-> "peak_time",
                                            label |-> <<"Rush hour travel">>,
                                            penalty |-> PeakPenalty])]
    ELSE acc

\* Lines 125-135: one turn of the loop over the legs, for the live delay.
DelayStep(leg, acc) ==
    IF "delayMinutes" \in DOMAIN leg /\ leg.delayMinutes # 0 /\ leg.delayMinutes > DelayThreshold
    THEN [acc EXCEPT !.totalPenalty = @ + DelayPenalty,
                     !.delayPenalty = @ + DelayPenalty,
                     !.reasons =
                         IF ~HasCode(@, "current_delay")
                         THEN Append(@, [code |-> "current_delay",
                                         label |-> <<"Current delay", leg.delayMinutes>>,
                                         penalty |-> DelayPenalty])
                         ELSE @]
    ELSE acc

RECURSIVE DelayLoop(_, _, _)
DelayLoop(legs, i, acc) ==
    IF i <= Len(legs) THEN DelayLoop(legs, i + 1, DelayStep(legs[i], acc)) ELSE acc

\* ClampScore without the floor at 0: Math.min(1, 1 - totalPenalty).
ClampScoreNoFloor(totalPenalty) == Min(100, 100 - totalPenalty)

\* Line 138: Math.max(0, Math.min(1, 1 - totalPenalty)).
ClampScore(totalPenalty) == Max(0, Min(100, 100 - totalPenalty))

\* LevelOf with the two thresholds left out (score > 0.75, score > 0.55).
LevelOfExclusive(score) ==
    IF score > LowRiskScore THEN "low"
    ELSE IF score > MediumRiskScore THEN "medium"
    ELSE "high"

\* Lines 140-143.
LevelOf(score) ==
    IF score >= LowRiskScore THEN "low"
    ELSE IF score >= MediumRiskScore THEN "medium"
    ELSE "high"

\* The state of the scoring pass when the loops are over: totalPenalty, every
\* reason pushed (in the order pushed), transferRisks, the value transferPenalty
\* had in each turn of the loop over the transfers, and how much of totalPenalty
\* was added at line 93 (stationPenalty), line 116 (peakPenalty) and line 127
\* (delayPenalty).
ReliabilityPass(legs, departureTime) ==
    DelayLoop(legs, 1, PeakStep(departureTime, TransferLoop(legs, 1, TransferCountStep(legs))))

\* Lines 145-152: what is returned.
ReliabilityReturn(pass) ==
    [score |-> ClampScore(pass.totalPenalty),
     level |-> LevelOf(ClampScore(pass.totalPenalty)),
     reasons |-> Slice0(SortByPenaltyDesc(pass.reasons), MaxReasons),
     transferRisks |-> pass.transferRisks]

calculateReliability(legs, departureTime) ==
    ReliabilityReturn(ReliabilityPass(legs, departureTime))

(***************************************************************************)
(* transport.ts: parseDuration                                             *)
(***************************************************************************)
IsDigitAt(s, p) == p >= 1 /\ p <= Len(s) /\ s[p] \in Digits

IsCharAt(s, p, c) == p >= 1 /\ p <= Len(s) /\ s[p] = c

\* (\d{2}):(\d{2}):(\d{2}) matches the eight characters of s from position p.
HmsAt(s, p) ==
    /\ IsDigitAt(s, p) /\ IsDigitAt(s, p + 1) /\ IsCharAt(s, p + 2, ":")
    /\ IsDigitAt(s, p + 3) /\ IsDigitAt(s, p + 4) /\ IsCharAt(s, p + 5, ":")
    /\ IsDigitAt(s, p + 6) /\ IsDigitAt(s, p + 7)

\* The position after the longest run of digits of s that starts at p.
RECURSIVE DigitRunEnd(_, _)
DigitRunEnd(s, p) == IF IsDigitAt(s, p) THEN DigitRunEnd(s, p + 1) ELSE p

\* (\d+)d followed by HH:MM:SS matches from p: \d+ takes the whole run of digits,
\* and a shorter run is never followed by "d".
DayHmsAt(s, p) ==
    /\ IsDigitAt(s, p)
    /\ IsCharAt(s, DigitRunEnd(s, p), "d")
    /\ HmsAt(s, DigitRunEnd(s, p) + 1)

\* The match of /(?:(\d+)d)?(\d{2}):(\d{2}):(\d{2})/ that starts at p: the groups
\* 1..3, group 1 Undefined when the day part did not take part.
MatchAt(s, p) ==
    IF DayHmsAt(s, p)
    THEN LET q == DigitRunEnd(s, p) + 1
         IN  [found |-> TRUE, days |-> SubSeq(s, p, q - 2),
              hours |-> SubSeq(s, q, q + 1), minutes |-> SubSeq(s, q + 3, q + 4)]
    ELSE IF HmsAt(s, p)
    THEN [found |-> TRUE, days |-> Undefined,
          hours |-> SubSeq(s, p, p + 1), minutes |-> SubSeq(s, p + 3, p + 4)]
    ELSE [found |-> FALSE]

\* duration.match(...): the leftmost match.
RECURSIVE MatchFrom(_, _)
MatchFrom(s, p) ==
    IF p > Len(s) THEN [found |-> FALSE]
    ELSE IF MatchAt(s, p).found THEN MatchAt(s, p)
    ELSE MatchFrom(s, p + 1)

\* parseDuration without the day part: hours * 60 + minutes.
parseDurationNoDays(duration) ==
    IF ~Truthy(duration) THEN 0
    ELSE LET match == MatchFrom(duration, 1)
         IN  IF ~match.found THEN 0
             ELSE ParseInt(match.hours) * 60 + ParseInt(match.minutes)

parseDuration(duration) ==
    IF ~Truthy(duration) THEN 0
    ELSE LET match == MatchFrom(duration, 1)
         IN  IF ~match.found THEN 0
             ELSE ParseInt(IF Truthy(match.days) THEN match.days ELSE <<"0">>) * 24 * 60
                      + ParseInt(match.hours) * 60 + ParseInt(match.minutes)

(***************************************************************************)
(* transport.ts: normalizeLegs                                             *)
(***************************************************************************)
\* obj.field, Undefined when the object does not carry the field.
Get(obj, field) == IF field \in DOMAIN obj THEN obj[field] ELSE Undefined

\* checkpoint.prognosis?.field
Prognosis(checkpoint, field) ==
    IF "prognosis" \in DOMAIN checkpoint THEN Get(checkpoint.prognosis, field) ELSE Undefined

\* The fields of obj that hold a truthy value: ...(v && { field: v }).
OnlyTruthy(obj) == [f \in {g \in DOMAIN obj : Truthy(obj[g])} |-> obj[f]]

\* Line 201: both the live and the scheduled departure time are there.
HasBothDepartures(section) ==
    /\ Truthy(Prognosis(section.departure, "departure"))
    /\ Truthy(Get(section.departure, "departure"))

\* Lines 202-204: (actual - planned) in seconds, and delayMinutes.
DepartureDiff(section) ==
    JsSub(DateGetTime(Prognosis(section.departure, "departure")),
          DateGetTime(section.departure.departure))

RawDelayMinutes(section) == RoundMinutes(DepartureDiff(section))

\* Lines 231-233 testing the difference before it is rounded, as getStationboard
\* does: the leg carries the rounded delay as soon as the live departure is later.
CarriedDelayUnrounded(section) ==
    IF HasBothDepartures(section) /\ JsGt(DepartureDiff(section), 0)
    THEN [delayMinutes |-> RawDelayMinutes(section)]
    ELSE <<>>

\* Lines 200-205 and 231-233: the property delayMinutes of the leg, or no property.
CarriedDelay(section) ==
    IF /\ HasBothDepartures(section)
       /\ ~IsNaN(RawDelayMinutes(section))
       /\ RawDelayMinutes(section) # 0
       /\ RawDelayMinutes(section) > 0
    THEN [delayMinutes |-> RawDelayMinutes(section)]
    ELSE <<>>

\* Lines 228-230: the property line of the leg, or no property.
CarriedLine(section) ==
    IF "walk" \notin DOMAIN section /\ "journey" \in DOMAIN section
    THEN [line |-> OrElse(Get(section.journey, "name"), Get(section.journey, "category"))]
    ELSE <<>>

\* Lines 196-235: the leg of one section.
normalizeLeg(section) ==
    LET isWalk == "walk" \in DOMAIN section
        departure == section.departure
        arrival == section.arrival
        fromPlatform == OrElse(Prognosis(departure, "platform"), Get(departure, "platform"))
        toPlatform == OrElse(Prognosis(arrival, "platform"), Get(arrival, "platform"))
        fromActual == Prognosis(departure, "departure")
        toActual == Prognosis(arrival, "arrival")
        from ==
            [name |-> departure.station.name,
             timePlanned |-> OrElse(Get(departure, "departure"), <<>>)]
            @@ OnlyTruthy([timeActual |->
                               IF fromActual # Get(departure, "departure")
                               THEN fromActual ELSE Undefined,
                           platform |-> fromPlatform])
        to ==
            [name |-> arrival.station.name,
             timePlanned |-> OrElse(Get(arrival, "arrival"), <<>>)]
            @@ OnlyTruthy([timeActual |->
                               IF toActual # Get(arrival, "arrival")
                               THEN toActual ELSE Undefined,
                           platform |-> toPlatform])
    IN  [type |-> IF isWalk THEN "walk" ELSE "ride", from |-> from, to |-> to]
            @@ CarriedLine(section) @@ CarriedDelay(section)

normalizeLegs(sections) == [i \in 1..Len(sections) |-> normalizeLeg(sections[i])]

(***************************************************************************)
(* transport.ts: generateConnectionId and findConnections                  *)
(***************************************************************************)
Letters ==
    {"a", "b", "c", "d", "e", "f", "g", "h", "i", "j", "k", "l", "m",
     "n", "o", "p", "q", "r", "s", "t", "u", "v", "w", "x", "y", "z",
     "A", "B", "C", "D", "E", "F", "G", "H", "I", "J", "K", "L", "M",
     "N", "O", "P", "Q", "R", "S", "T", "U", "V", "W", "X", "Y", "Z"}

\* The characters the class [^a-zA-Z0-9-] does not match.
IdChars == Letters \cup Digits \cup {"-"}

\* text.replace(/[^a-zA-Z0-9-]/g, "_")
ReplaceNonIdChars(text) ==
    [i \in 1..Len(text) |-> IF text[i] \in IdChars THEN text[i] ELSE "_"]

\* array.join("-"): an undefined element is written as the empty string.
RECURSIVE JoinDash(_)
JoinDash(strings) ==
    IF Len(strings) = 0 THEN <<>>
    ELSE IF Len(strings) = 1
    THEN (IF strings[1] = Undefined THEN <<>> ELSE strings[1])
    ELSE JoinDash(SubSeq(strings, 1, Len(strings) - 1)) \o <<"-">>
             \o (IF strings[Len(strings)] = Undefined THEN <<>> ELSE strings[Len(strings)])

HasJourney(section) == "journey" \in DOMAIN section

\* conn.sections.filter((s) => s.journey).map((s) => s.journey?.name)
JourneyNames(conn) ==
    LET journeys == SelectSeq(conn.sections, HasJourney)
    IN  [i \in 1..Len(journeys) |-> Get(journeys[i].journey, "name")]

\* generateConnectionId built from the line of each leg (journey.name || journey.category).
generateConnectionIdFromLines(conn) ==
    LET journeys == SelectSeq(conn.sections, HasJourney)
        lines == [i \in 1..Len(journeys) |->
                     OrElse(Get(journeys[i].journey, "name"),
                            Get(journeys[i].journey, "category"))]
    IN  ReplaceNonIdChars(OrElse(Get(conn.from, "departure"), <<>>) \o <<"-">>
                              \o JoinDash(lines))

generateConnectionId(conn) ==
    ReplaceNonIdChars(OrElse(Get(conn.from, "departure"), <<>>) \o <<"-">>
                          \o JoinDash(JourneyNames(conn)))

\* Infinity: larger than every number of the model.
Infinity == 1000 * 1000 * 1000

\* Lines 146-153: fastestDuration after the first map over the connections.
RECURSIVE FastestDuration(_)
FastestDuration(conns) ==
    IF Len(conns) = 0 THEN Infinity
    ELSE LET rest == FastestDuration(SubSeq(conns, 1, Len(conns) - 1))
             duration == parseDuration(Get(conns[Len(conns)], "duration"))
         IN  IF duration < rest THEN duration ELSE rest

\* Lines 146-153: fewestTransfers after the first map over the connections.
RECURSIVE FewestTransfers(_)
FewestTransfers(conns) ==
    IF Len(conns) = 0 THEN Infinity
    ELSE LET rest == FewestTransfers(SubSeq(conns, 1, Len(conns) - 1))
         IN  IF conns[Len(conns)].transfers < rest THEN conns[Len(conns)].transfers
             ELSE rest

\* Lines 157-160 with "recommended" given to the fastest connection.
TagsOfRecommendFastest(conn, index, fastestDuration, fewestTransfers) ==
    (IF parseDuration(Get(conn, "duration")) = fastestDuration THEN <<"fastest">> ELSE <<>>)
        \o (IF conn.transfers = fewestTransfers THEN <<"fewest transfers">> ELSE <<>>)
        \o (IF parseDuration(Get(conn, "duration")) = fastestDuration
            THEN <<"recommended">> ELSE <<>>)

\* Lines 157-160: the tags of the connection at index (0 is the first).
TagsOf(conn, index, fastestDuration, fewestTransfers) ==
    (IF parseDuration(Get(conn, "duration")) = fastestDuration THEN <<"fastest">> ELSE <<>>)
        \o (IF conn.transfers = fewestTransfers THEN <<"fewest transfers">> ELSE <<>>)
        \o (IF index = 0 THEN <<"recommended">> ELSE <<>>)

\* Lines 155-175: the connection made of the raw connection at index.
ProcessConnection(conn, index, fastestDuration, fewestTransfers, now) ==
    LET legs == normalizeLegs(conn.sections)
        reliability ==
            calculateReliability(legs, OrElse(Get(conn.from, "departure"), now))
    IN  [id |-> generateConnectionId(conn),
         departureTime |-> OrElse(Get(conn.from, "departure"), <<>>),
         arrivalTime |-> OrElse(Get(conn.to, "arrival"), <<>>),
         durationMinutes |-> parseDuration(Get(conn, "duration")),
         transfersCount |-> conn.transfers,
         legs |-> legs,
         reliabilityScore |-> reliability.score,
         reliability |-> reliability,
         tags |-> TagsOf(conn, index, fastestDuration, fewestTransfers)]

\* Lines 142-184: what findConnections makes of the provider's response; now is
\* the time new Date() reads.
findConnections(response, now) ==
    IF ~response.ok THEN [threw |-> TRUE]
    ELSE LET conns == response.connections
             connections ==
                 [i \in 1..Len(conns) |->
                     ProcessConnection(conns[i], i - 1, FastestDuration(conns),
                                       FewestTransfers(conns), now)]
             stations ==
                 IF Len(conns) > 0
                 THEN [fromStation |-> [name |-> conns[1].from.station.name],
                       toStation |-> [name |-> conns[1].to.station.name]]
                 ELSE <<>>
         IN  [threw |-> FALSE, connections |-> connections] @@ stations

(***************************************************************************)
(* transport.ts: checkDisruptions.  The station name it is called with and *)
(* the hub names are sequences of characters.                              *)
(***************************************************************************)
HubZuerich == <<"Z", "ü", "r", "i", "c", "h", " ", "H", "B">>
HubBern == <<"B", "e", "r", "n">>
HubBasel == <<"B", "a", "s", "e", "l", " ", "S", "B", "B">>
HubGeneve == <<"G", "e", "n", "è", "v", "e">>
HubLausanne == <<"L", "a", "u", "s", "a", "n", "n", "e">>
HubLuzern == <<"L", "u", "z", "e", "r", "n">>
HubWinterthur == <<"W", "i", "n", "t", "e", "r", "t", "h", "u", "r">>
HubStGallen == <<"S", "t", ".", " ", "G", "a", "l", "l", "e", "n">>

\* Line 264, the array before the filter.
MAJOR_HUBS ==
    <<HubZuerich, HubBern, HubBasel, HubGeneve, HubLausanne, HubLuzern,
      HubWinterthur, HubStGallen>>

HubsToCheckLimit == 4

UpperChars ==
    <<"A", "B", "C", "D", "E", "F", "G", "H", "I", "J", "K", "L", "M", "N",
      "O", "P", "Q", "R", "S", "T", "U", "V", "W", "X", "Y", "Z", "Ü", "È">>
LowerChars ==
    <<"a", "b", "c", "d", "e", "f", "g", "h", "i", "j", "k", "l", "m", "n",
      "o", "p", "q", "r", "s", "t", "u", "v", "w", "x", "y", "z", "ü", "è">>

\* text.toLowerCase()
ToLowerCase(text) ==
    [i \in 1..Len(text) |->
        IF \E k \in 1..Len(UpperChars) : UpperChars[k] = text[i]
        THEN LowerChars[CHOOSE k \in 1..Len(UpperChars) : UpperChars[k] = text[i]]
        ELSE text[i]]

\* text.split(" ")[0]
FirstWord(text) ==
    IF \E i \in 1..Len(text) : text[i] = " "
    THEN SubSeq(text, 1, (CHOOSE i \in 1..Len(text) :
                             text[i] = " " /\ \A j \in 1..(i - 1) : text[j] # " ") - 1)
    ELSE text

\* text.includes(part)
Includes(text, part) ==
    \E p \in 0..(Len(text) - Len(part)) : SubSeq(text, p + 1, p + Len(part)) = part

\* HubIsCandidate that compares the names as they are written.
HubIsCandidateAsWritten(stationName, hub) == ~Includes(stationName, FirstWord(hub))

\* Line 265, the test of the filter.
HubIsCandidate(stationName, hub) ==
    ~Includes(ToLowerCase(stationName), FirstWord(ToLowerCase(hub)))

\* Lines 264-265: the hubs from index k on that pass the filter, in their order.
RECURSIVE majorHubsFrom(_, _)
majorHubsFrom(stationName, k) ==
    IF k > Len(MAJOR_HUBS) THEN <<>>
    ELSE (IF HubIsCandidate(stationName, MAJOR_HUBS[k]) THEN <<MAJOR_HUBS[k]>> ELSE <<>>)
             \o majorHubsFrom(stationName, k + 1)

majorHubs(stationName) == majorHubsFrom(stationName, 1)

\* Line 272: sort with a random comparator leaves the hubs in some order, and
\* slice keeps the first four of them; so hubsToCheck is any sequence of
\* min(4, length) different candidates.
hubsToCheckChoices(candidates) ==
    LET n == Min(HubsToCheckLimit, Len(candidates))
    IN  {[k \in 1..n |-> candidates[pick[k]]] :
            pick \in {p \in [1..n -> 1..Len(candidates)] :
                         \A a, b \in 1..n : a # b => p[a] # p[b]}}

WalkText == <<"w", "a", "l", "k">>

\* Line 281.
LegIsDelayed(leg) ==
    "delayMinutes" \in DOMAIN leg /\ leg.delayMinutes # 0 /\ JsGt(leg.delayMinutes, 0)

\* Lines 283-288.
DelayedRouteOf(leg) ==
    [route |-> <<leg.from.name, leg.to.name>>,
     line |-> OrElse(Get(leg, "line"), WalkText),
     scheduledDeparture |-> leg.from.timePlanned,
     delayMinutes |-> leg.delayMinutes]

\* Lines 280-290: the delayed routes of the legs from index k on.
RECURSIVE DelayedRoutesOfLegs(_, _)
DelayedRoutesOfLegs(legs, k) ==
    IF k > Len(legs) THEN <<>>
    ELSE (IF LegIsDelayed(legs[k]) THEN <<DelayedRouteOf(legs[k])>> ELSE <<>>)
             \o DelayedRoutesOfLegs(legs, k + 1)

\* Lines 279-291: the delayed routes of the connections from index k on.
RECURSIVE DelayedRoutesOfConnections(_, _)
DelayedRoutesOfConnections(connections, k) ==
    IF k > Len(connections) THEN <<>>
    ELSE DelayedRoutesOfLegs(connections[k].legs, 1)
             \o DelayedRoutesOfConnections(connections, k + 1)

NoTally == [delays |-> <<>>, delayedRoutes |-> <<>>, cancelledOrMissing |-> 0, totalChecked |-> 0]

\* TallyResult that counts a failed request and not an empty result.
TallyResultFailuresOnly(tally, result) ==
    IF result.threw THEN [tally EXCEPT !.cancelledOrMissing = @ + 1]
    ELSE LET routes == DelayedRoutesOfConnections(result.connections, 1)
         IN  [delays |-> tally.delays \o [k \in 1..Len(routes) |-> routes[k].delayMinutes],
              delayedRoutes |-> tally.delayedRoutes \o routes,
              cancelledOrMissing |-> tally.cancelledOrMissing,
              totalChecked |-> tally.totalChecked + Len(result.connections)]

\* NextRequests of a loop that a failed request ends.
NextRequestsUntilFailure(hubsToCheck, i, result) ==
    IF i < Len(hubsToCheck) /\ ~result.threw THEN <<i + 1>> ELSE <<>>

\* Lines 274-296, the requests sent once the request about hub i has returned or
\* thrown: the for loop goes on to the next hub, whatever the result.
NextRequests(hubsToCheck, i, result) ==
    IF i < Len(hubsToCheck) THEN <<i + 1>> ELSE <<>>

\* Lines 275-295: one turn of the loop, on what findConnections gave for the hub.
TallyResult(tally, result) ==
    IF result.threw THEN [tally EXCEPT !.cancelledOrMissing = @ + 1]
    ELSE LET routes == DelayedRoutesOfConnections(result.connections, 1)
         IN  [delays |-> tally.delays \o [k \in 1..Len(routes) |-> routes[k].delayMinutes],
              delayedRoutes |-> tally.delayedRoutes \o routes,
              cancelledOrMissing |->
                  tally.cancelledOrMissing
                      + (IF Len(result.connections) = 0 THEN 1 ELSE 0),
              totalChecked |-> tally.totalChecked + Len(result.connections)]

RECURSIVE SumOf(_)
SumOf(s) == IF Len(s) = 0 THEN 0 ELSE s[1] + SumOf(Tail(s))

RECURSIVE MaxOf(_)
MaxOf(s) == IF Len(s) = 1 THEN s[1] ELSE Max(s[1], MaxOf(Tail(s)))

\* Line 299: Math.round of the mean, the half rounded up.
AverageDelay(delays) ==
    IF Len(delays) > 0 THEN (2 * SumOf(delays) + Len(delays)) \div (2 * Len(delays)) ELSE 0

\* MaxDelay that reads the last delay found.
MaxDelayLast(delays) == IF Len(delays) > 0 THEN delays[Len(delays)] ELSE 0

\* Line 300.
MaxDelay(delays) == IF Len(delays) > 0 THEN MaxOf(delays) ELSE 0

DisruptedMissing == 2
DisruptedDelay == 30
MajorDelay == 15
MinorDelay == 5

\* StatusOf with a first rule that looks at cancelledOrMissing only.
StatusOfMissingOnly(cancelledOrMissing, maxDelay, delayedConnectionsCount, totalChecked) ==
    IF cancelledOrMissing >= DisruptedMissing THEN "disrupted"
    ELSE IF maxDelay > MajorDelay \/ 2 * delayedConnectionsCount > totalChecked
    THEN "major_delays"
    ELSE IF maxDelay > MinorDelay \/ delayedConnectionsCount > 0 THEN "minor_delays"
    ELSE "normal"

\* Lines 302-306; count > totalChecked * 0.5 is 2 * count > totalChecked.
StatusOf(cancelledOrMissing, maxDelay, delayedConnectionsCount, totalChecked) ==
    IF cancelledOrMissing >= DisruptedMissing \/ maxDelay > DisruptedDelay THEN "disrupted"
    ELSE IF maxDelay > MajorDelay \/ 2 * delayedConnectionsCount > totalChecked
    THEN "major_delays"
    ELSE IF maxDelay > MinorDelay \/ delayedConnectionsCount > 0 THEN "minor_delays"
    ELSE "normal"

\* Lines 308-313: the summary of the status: its kind, the station and the
\* numbers it shows.
SummaryOf(status, stationName, delayedConnectionsCount, averageDelay, maxDelay) ==
    IF status = "disrupted" THEN <<status, stationName, delayedConnectionsCount, maxDelay>>
    ELSE IF status = "major_delays" THEN <<status, stationName, averageDelay>>
    ELSE IF status = "minor_delays"
    THEN <<status, stationName, delayedConnectionsCount, averageDelay>>
    ELSE <<status, stationName>>

\* Lines 298-327: the report made of the tallies after the loop.
ReportOf(stationName, hubsToCheck, tally, now) ==
    LET delayedConnectionsCount == Len(tally.delayedRoutes)
        averageDelay == AverageDelay(tally.delays)
        maxDelay == MaxDelay(tally.delays)
        status == StatusOf(tally.cancelledOrMissing, maxDelay, delayedConnectionsCount,
                           tally.totalChecked)
    IN  [station |-> stationName,
         checkedAt |-> now,
         routesChecked |-> [k \in 1..Len(hubsToCheck) |-> <<stationName, hubsToCheck[k]>>],
         totalConnectionsChecked |-> tally.totalChecked,
         delayedConnectionsCount |-> delayedConnectionsCount,
         cancelledOrMissing |-> tally.cancelledOrMissing,
         averageDelayMinutes |-> averageDelay,
         maxDelayMinutes |-> maxDelay,
         delayedRoutes |-> tally.delayedRoutes,
         status |-> status,
         summary |-> SummaryOf(status, stationName, delayedConnectionsCount,
                               averageDelay, maxDelay)]

(***************************************************************************)
(* src/src/insights/weather.ts                                             *)
(* Temperatures are counted in tenths of a degree, precipitation in tenths *)
(* of a millimetre, gusts in km/h, coordinates in thousandths of a degree  *)
(* and Date.now() in milliseconds since the process started.               *)
(***************************************************************************)
CACHE_TTL_MS == 15 * 60 * 1000

StationLimit == 4
SnowTemperature == 10
SnowPrecipitation == 5
HeavyRainPrecipitation == 50
RainPrecipitation == 20
HighWindGusts == 60
WindGusts == 40
FreezingTemperature == 0 - 50
SnowPenalty == 20
HeavyRainPenalty == 12
RainPenalty == 6
HighWindPenalty == 15
WindPenalty == 8
FreezingPenalty == 5
WeatherPenaltyCap == 35
HighLevelPenalty == 20
MediumLevelPenalty == 8
WeatherMaxReasons == 2

\* x.toFixed(2) of a positive coordinate: hundredths, the half rounded up.
ToFixed2(x) == (x + 5) \div 10

\* Math.round of a value counted in tenths.
RoundTenths(x) == (x + 5) \div 10

\* `weather:${lat.toFixed(2)}:${lon.toFixed(2)}:${hour}`
getCacheKey(lat, lon, hour) == <<"weather", ToFixed2(lat), ToFixed2(lon)>> \o hour

\* Lines 35-42: formatToParts throws a RangeError on an invalid date.
FormatThrows(datetime) == ~IsTimestamp(datetime)

\* Lines 44-45: the local date and the local hour of datetime.
DateStr(datetime) == datetime[1]
TargetHour(datetime) == DateGetHours(datetime)

\* Line 47.
CacheKeyOf(lat, lon, datetime) ==
    getCacheKey(lat, lon, <<DateStr(datetime), TargetHour(datetime)>>)

\* CacheHit that still takes an entry at the time of its expiry.
CacheHitAtExpiry(cache, key, now) == key \in DOMAIN cache /\ cache[key].expires >= now

\* Lines 49-50: cached && cached.expires > Date.now().
CacheHit(cache, key, now) == key \in DOMAIN cache /\ cache[key].expires > now

\* CacheSet that keeps the entry the key already has.
CacheSetKeepingFirst(cache, key, entry) ==
    IF key \in DOMAIN cache THEN cache ELSE (key :> entry) @@ cache

\* cache.set(key, entry)
CacheSet(cache, key, entry) == (key :> entry) @@ cache

\* CacheAfterFetch that drops the entry of the key when the fetch gives no sample.
CacheAfterFetchEvicting(cache, key, fetched, ref, now) ==
    IF fetched.ok THEN CacheSet(cache, key, [data |-> ref, expires |-> now + CACHE_TTL_MS])
    ELSE [k \in DOMAIN cache \ {key} |-> cache[k]]

\* Lines 62-91, the cache after the fetch: line 88 when a sample was built (the
\* object ref), nothing on any of the paths that return null.
CacheAfterFetch(cache, key, fetched, ref, now) ==
    IF fetched.ok THEN CacheSet(cache, key, [data |-> ref, expires |-> now + CACHE_TTL_MS])
    ELSE cache

\* hourly.time.findIndex(t => parseInt(t.slice(11, 13)) === targetHour); 0 for -1.
RECURSIVE FindHourFrom(_, _, _)
FindHourFrom(times, targetHour, k) ==
    IF k > Len(times) THEN 0
    ELSE IF ParseInt(SubSeq(times[k], 3, 4)) = targetHour THEN k
    ELSE FindHourFrom(times, targetHour, k + 1)

FindHourIndex(times, targetHour) == FindHourFrom(times, targetHour, 1)

\* hourly.field?.[hourIndex] ?? 0
HourlyValue(hourly, field, hourIndex) ==
    IF field \in DOMAIN hourly /\ hourIndex \in DOMAIN hourly[field]
    THEN hourly[field][hourIndex] ELSE 0

\* Lines 62-91, what fetchWeatherForPoint makes of the provider's answer: no
\* sample (null), or the sample it builds.
FetchedSample(lat, lon, datetime, answer) ==
    IF answer.rejects THEN [ok |-> FALSE]
    ELSE IF ~answer.ok THEN [ok |-> FALSE]
    ELSE IF ~("hourly" \in DOMAIN answer.data
              /\ "time" \in DOMAIN answer.data.hourly
              /\ Len(answer.data.hourly.time) > 0) THEN [ok |-> FALSE]
    ELSE LET hourly == answer.data.hourly
             hourIndex == FindHourIndex(hourly.time, TargetHour(datetime))
         IN  IF hourIndex = 0 THEN [ok |-> FALSE]
             ELSE [ok |-> TRUE,
                   sample |->
                     [station |-> "", time |-> datetime, lat |-> lat, lon |-> lon,
                      temperature |-> HourlyValue(hourly, "temperature_2m", hourIndex),
                      precipitation |-> HourlyValue(hourly, "precipitation", hourIndex),
                      snowfall |-> HourlyValue(hourly, "snowfall", hourIndex),
                      windSpeed |-> HourlyValue(hourly, "wind_speed_10m", hourIndex),
                      windGusts |-> HourlyValue(hourly, "wind_gusts_10m", hourIndex),
                      weatherCode |-> HourlyValue(hourly, "weather_code", hourIndex)]]

\* A label: its text, the number it shows (0 when none) and the station it names
\* ("" when none).
WeatherLabel(text, number, station) == <<text, number, station>>

\* PushWeatherReason that pushes the reason even when its code is already there.
PushWeatherReasonAlways(acc, code, label, penalty) ==
    [totalPenalty |-> acc.totalPenalty + penalty,
     reasons |-> Append(acc.reasons, [code |-> code, label |-> label, penalty |-> penalty])]

\* totalPenalty += penalty; if (!reasons.find(r => r.code === code)) reasons.push(..)
PushWeatherReason(acc, code, label, penalty) ==
    [totalPenalty |-> acc.totalPenalty + penalty,
     reasons |-> IF HasCode(acc.reasons, code) THEN acc.reasons
                 ELSE Append(acc.reasons,
                             [code |-> code, label |-> label, penalty |-> penalty])]

\* Lines 119-189: one turn of the loop over the samples.
WeatherStep(acc, sample) ==
    LET snow ==
            IF sample.temperature < SnowTemperature
               /\ sample.precipitation > SnowPrecipitation
            THEN PushWeatherReason(acc, "snow_risk",
                     WeatherLabel("Snow risk at", 0, sample.station), SnowPenalty)
            ELSE acc
        rain ==
            IF sample.precipitation > HeavyRainPrecipitation
            THEN PushWeatherReason(snow, "heavy_rain",
                     WeatherLabel("Heavy rain at", 0, sample.station), HeavyRainPenalty)
            ELSE IF sample.precipitation > RainPrecipitation
            THEN PushWeatherReason(snow, "rain",
                     WeatherLabel("Rain expected", 0, ""), RainPenalty)
            ELSE snow
        wind ==
            IF sample.windGusts > HighWindGusts
            THEN PushWeatherReason(rain, "high_wind",
                     WeatherLabel("Strong gusts km/h", sample.windGusts, ""), HighWindPenalty)
            ELSE IF sample.windGusts > WindGusts
            THEN PushWeatherReason(rain, "wind",
                     WeatherLabel("Windy conditions", 0, ""), WindPenalty)
            ELSE rain
    IN  IF sample.temperature < FreezingTemperature
        THEN PushWeatherReason(wind, "freezing",
                 WeatherLabel("Freezing C", RoundTenths(sample.temperature), ""),
                 FreezingPenalty)
        ELSE wind

\* Lines 102-104 and 118-190: the loop over the samples.
RECURSIVE WeatherLoop(_)
WeatherLoop(samples) ==
    IF Len(samples) = 0 THEN [totalPenalty |-> 0, reasons |-> <<>>]
    ELSE WeatherStep(WeatherLoop(SubSeq(samples, 1, Len(samples) - 1)),
                     samples[Len(samples)])

\* CapPenalty without the cap.
CapPenaltyNone(totalPenalty) == totalPenalty

\* Line 192: Math.min(0.35, totalPenalty).
CapPenalty(totalPenalty) == Min(WeatherPenaltyCap, totalPenalty)

\* Lines 194-197.
WeatherLevelOf(totalPenalty) ==
    IF totalPenalty >= HighLevelPenalty THEN "high"
    ELSE IF totalPenalty >= MediumLevelPenalty THEN "medium"
    ELSE "low"

\* WeatherInsightOf that keeps the first two reasons found and then sorts them.
WeatherInsightOfFirstFound(heap, refs) ==
    LET pass == WeatherLoop([k \in 1..Len(refs) |-> heap[refs[k]]])
        totalPenalty == CapPenalty(pass.totalPenalty)
    IN  [level |-> WeatherLevelOf(totalPenalty),
         penalty |-> totalPenalty,
         reasons |-> SortByPenaltyDesc(Slice0(pass.reasons, WeatherMaxReasons)),
         samples |-> refs]

\* Lines 118-206: the WeatherInsight made of the sample objects refs of the
\* heap; its samples are the references themselves.
WeatherInsightOf(heap, refs) ==
    LET pass == WeatherLoop([k \in 1..Len(refs) |-> heap[refs[k]]])
        totalPenalty == CapPenalty(pass.totalPenalty)
    IN  [level |-> WeatherLevelOf(totalPenalty),
         penalty |-> totalPenalty,
         reasons |-> Slice0(SortByPenaltyDesc(pass.reasons), WeatherMaxReasons),
         samples |-> refs]

\* sample.station = name, on the object ref of the heap.
SetStation(heap, ref, name) == [heap EXCEPT ![ref].station = name]

\* Lines 108-116 up to the first await of every lookup, for the stations from
\* index k on: a lookup whose date cannot be formatted rejects, a lookup that hits
\* the cache resolves with the cached object, the others have sent their request.
RECURSIVE LookupsFrom(_, _, _, _)
LookupsFrom(stations, cache, now, k) ==
    IF k > Len(stations) THEN [rejected |-> FALSE, hits |-> <<>>, pending |-> {}]
    ELSE LET rest == LookupsFrom(stations, cache, now, k + 1)
             st == stations[k]
         IN  IF FormatThrows(st.time) THEN [rest EXCEPT !.rejected = TRUE]
             ELSE IF CacheHit(cache, CacheKeyOf(st.lat, st.lon, st.time), now)
             THEN [rest EXCEPT !.hits =
                     <<[index |-> k,
                        ref |-> cache[CacheKeyOf(st.lat, st.lon, st.time)].data]>> \o @]
             ELSE [rest EXCEPT !.pending = @ \cup {k}]

\* Lines 111-114 for the lookups that hit, in the order of the stations.
RECURSIVE NameHits(_, _, _)
NameHits(heap, stations, hits) ==
    IF Len(hits) = 0 THEN heap
    ELSE NameHits(SetStation(heap, hits[1].ref, stations[hits[1].index].name),
                  stations, Tail(hits))

(***************************************************************************)
(* The legs and departure times calculateReliability is called with.       *)
(***************************************************************************)
Stop(name, timePlanned) == [name |-> name, timePlanned |-> timePlanned]

StopActual(name, timePlanned, timeActual) ==
    [name |-> name, timePlanned |-> timePlanned, timeActual |-> timeActual]

Ride(line, from, to) == [type |-> "ride", line |-> line, from |-> from, to |-> to]

Walk(from, to) == [type |-> "walk", from |-> from, to |-> to]

Delayed(leg, minutes) == leg @@ ("delayMinutes" :> minutes)

\* Wednesday 2026-02-04.
Wed == 4

LineIC8 == <<"I", "C", " ", "8">>
LineIR15 == <<"I", "R", " ", "1", "5">>
LineS7 == <<"S", "-", "7">>
LineBus == <<"B", ".", "3", "1">>

RelLegPool ==
    { Ride(LineIC8, Stop("Thun", IsoText(Wed, 8, 0, 0)), Stop("Bern", IsoText(Wed, 8, 40, 0))),
      Delayed(Ride(LineIR15, Stop("Bern", IsoText(Wed, 8, 46, 0)),
                   Stop("Olten", IsoText(Wed, 9, 10, 0))), 4),
      Delayed(Ride(LineS7, Stop("Bern", IsoText(Wed, 8, 43, 30)),
                   StopActual("Thun", IsoText(Wed, 9, 5, 0), IsoText(Wed, 9, 6, 30))), 2),
      Walk(Stop("Olten", IsoText(Wed, 9, 13, 30)), Stop("Spiez", IsoText(Wed, 9, 20, 0))),
      Delayed(Ride(LineIR15, Stop("Spiez", IsoText(Wed, 9, 27, 30)),
                   Stop("bern Wankdorf", IsoText(Wed, 9, 40, 0))), 7),
      Ride(LineBus, Stop("Thun", <<>>), Stop("Zürich Oerlikon", <<>>)),
      Ride(LineIC8, Stop("Olten", IsoText(Wed, 8, 45, 0)),
           StopActual("Bern", IsoText(Wed, 9, 10, 0), IsoText(Wed, 9, 10, 30))) }

RelDepartures ==
    { IsoText(Wed, 8, 15, 0), IsoText(7, 8, 15, 0), IsoText(Wed, 12, 0, 0),
      IsoText(2, 16, 30, 0), IsoText(6, 18, 31, 0), <<>>,
      IsoText(2, 6, 59, 59), IsoText(2, 7, 0, 0), IsoText(6, 9, 0, 59), IsoText(6, 9, 1, 0),
      IsoText(Wed, 16, 29, 0), IsoText(Wed, 18, 30, 0), IsoText(1, 8, 15, 0),
      IsoText(1, 17, 0, 0), IsoText(7, 17, 0, 0) }

SeqsUpTo(S, n) == UNION {[1..k -> S] : k \in 0..n}

RelIdle == relLegs = <<>> /\ relDeparture = <<>> /\ relOut = NotCalled

DurIdle == durIn = <<>> /\ durOut = NotCalled

NormIdle == normSections = <<>> /\ normOut = NotCalled

ConnIdle == connProvider = [ok |-> FALSE] /\ connOut = NotCalled /\ connPrev = NotCalled

NoCall == [active |-> FALSE]

WxIdle ==
    /\ wxNow = 0 /\ wxCache = <<>> /\ wxHeap = <<>>
    /\ wxCall = NoCall /\ wxOut = NotCalled /\ wxPrev = NotCalled

DisNoCall == [active |-> FALSE]

DisIdle == disStation = <<>> /\ disCall = DisNoCall /\ disOut = NotCalled

RelInit ==
    /\ relLegs \in SeqsUpTo(RelLegPool, MaxLegs)
    /\ relDeparture \in RelDepartures
    /\ relOut = NotCalled
    /\ DurIdle /\ NormIdle /\ ConnIdle /\ WxIdle /\ DisIdle

\* A call calculateReliability(relLegs, relDeparture).
CalculateReliability ==
    /\ relOut = NotCalled
    /\ relOut' = [called |-> TRUE,
                  ret |-> calculateReliability(relLegs, relDeparture),
                  pass |-> ReliabilityPass(relLegs, relDeparture)]
    /\ UNCHANGED <<relLegs, relDeparture, durVars, normVars, connVars, wxVars, disVars>>

RelNext == CalculateReliability

SpecRel == RelInit /\ [][RelNext]_vars

(***************************************************************************)
(* The duration strings parseDuration is called with.                      *)
(***************************************************************************)
DayTexts == {<<"1">>, <<"0", "0">>, <<"1", "2">>}

ClockText(hh, mm, ss) == TwoDigits(hh) \o <<":">> \o TwoDigits(mm) \o <<":">> \o TwoDigits(ss)

ClockTexts == {ClockText(hh, mm, ss) : hh \in {0, 1, 2, 23}, mm \in {0, 2, 59}, ss \in {0, 3}}

\* The durations the provider writes: HH:MM:SS with or without the days before "d".
WellFormedDurations ==
    ClockTexts \cup {days \o <<"d">> \o clock : days \in DayTexts, clock \in ClockTexts}

DurAlphabet == {"1", "d", ":"}

\* Strings too short to hold HH:MM:SS, and strings that are not a duration alone.
OtherDurations ==
    SeqsUpTo(DurAlphabet, MaxDurLen)
        \cup { Undefined,
               <<"1", ":", "0", "2", ":", "0", "3">>,
               <<"0", "1", "-", "0", "2", "-", "0", "3">>,
               <<"0", "1", ":", "0", "2", ":", "3">>,
               <<"1", "d", "2", ":", "0", "0", ":", "0", "0">>,
               <<"d", "0", "1", ":", "0", "2", ":", "0", "3">>,
               <<"1", " ", "d", "0", "1", ":", "0", "2", ":", "0", "3">>,
               <<"1", "2", "3", ":", "4", "5", ":", "0", "0">> }

DurInit ==
    /\ durIn \in WellFormedDurations \cup OtherDurations
    /\ durOut = NotCalled
    /\ RelIdle /\ NormIdle /\ ConnIdle /\ WxIdle /\ DisIdle

\* A call parseDuration(durIn).
ParseDuration ==
    /\ durOut = NotCalled
    /\ durOut' = [called |-> TRUE, ret |-> parseDuration(durIn)]
    /\ UNCHANGED <<durIn, relVars, normVars, connVars, wxVars, disVars>>

DurNext == ParseDuration

SpecDur == DurInit /\ [][DurNext]_vars

(***************************************************************************)
(* The sections normalizeLegs is called with.                              *)
(***************************************************************************)
\* { field: value }, or {} when the provider left the value out.
Opt(field, value) == IF value = Undefined THEN <<>> ELSE (field :> value)

\* { prognosis: p } for <<p>>, {} for <<>> (the provider sent no prognosis).
OptPrognosis(prog) == IF prog = <<>> THEN <<>> ELSE ("prognosis" :> prog[1])

Checkpoint(name, field, time, platform, prog) ==
    [station |-> [name |-> name]] @@ Opt(field, time) @@ Opt("platform", platform)
        @@ OptPrognosis(prog)

RideSection(name, category, departure, arrival) ==
    [journey |-> Opt("name", name) @@ Opt("category", category),
     departure |-> departure, arrival |-> arrival]

WalkSection(departure, arrival) ==
    [walk |-> [duration |-> 300], departure |-> departure, arrival |-> arrival]

Platform3 == <<"3">>
Platform4Changed == <<"4", "!">>

\* The scheduled departure of a section: missing, or 08:00:00.
NormDepartures == {Undefined, IsoText(Wed, 8, 0, 0)}

\* The live data of its departure: none, a platform only, or a departure that is
\* early, on time, 20 s, 30 s, 3 min 29 s or 5 min late, or empty.
NormPrognoses ==
    { <<>>, <<[platform |-> Platform4Changed]>>, <<[departure |-> <<>>]>> }
        \cup { <<[departure |-> t]>> :
                 t \in { IsoText(Wed, 7, 58, 0), IsoText(Wed, 8, 0, 0), IsoText(Wed, 8, 0, 20),
                         IsoText(Wed, 8, 0, 30), IsoText(Wed, 8, 3, 29) } }

\* The live data of its arrival, scheduled at 08:40:00: none, or 5 min late.
NormArrivalPrognoses == { <<>>, <<[arrival |-> IsoText(Wed, 8, 45, 0)]>> }

NormSectionPool ==
    { RideSection(LineIC8, <<"I", "C">>,
                  Checkpoint("Thun", "departure", dep, Platform3, prog),
                  Checkpoint("Bern", "arrival", IsoText(Wed, 8, 40, 0), Undefined, arrProg)) :
        dep \in NormDepartures, prog \in NormPrognoses, arrProg \in NormArrivalPrognoses }
    \cup
    { WalkSection(Checkpoint("Thun", "departure", dep, Undefined, prog),
                  Checkpoint("Bern", "arrival", IsoText(Wed, 8, 40, 0), Undefined, arrProg)) :
        dep \in NormDepartures, prog \in NormPrognoses, arrProg \in NormArrivalPrognoses }

NormInit ==
    /\ normSections \in SeqsUpTo(NormSectionPool, MaxSections)
    /\ normOut = NotCalled
    /\ RelIdle /\ DurIdle /\ ConnIdle /\ WxIdle /\ DisIdle

\* A call normalizeLegs(normSections).
NormalizeLegs ==
    /\ normOut = NotCalled
    /\ normOut' = [called |-> TRUE, ret |-> normalizeLegs(normSections)]
    /\ UNCHANGED <<normSections, relVars, durVars, connVars, wxVars, disVars>>

NormNext == NormalizeLegs

SpecNorm == NormInit /\ [][NormNext]_vars

(***************************************************************************)
(* The provider responses findConnections is called with.                  *)
(***************************************************************************)
Duration0110 == <<"0", "0", "d">> \o ClockText(1, 10, 0)
Duration0120 == <<"0", "0", "d">> \o ClockText(1, 20, 0)
Duration1d02 == <<"1", "d">> \o ClockText(2, 0, 0)

Plain(name, field, time) == Checkpoint(name, field, time, Undefined, <<>>)

RawConnection(from, to, duration, transfers, sections) ==
    [from |-> from, to |-> to, transfers |-> transfers, sections |-> sections]
        @@ Opt("duration", duration)

\* 08:00 Thun - Bern - Olten with IC 8 and IR 15, the second departing 4 min late.
RawTwoRides ==
    RawConnection(
        Plain("Thun", "departure", IsoText(Wed, 8, 0, 0)),
        Plain("Olten", "arrival", IsoText(Wed, 9, 10, 0)),
        Duration0110, 1,
        << RideSection(LineIC8, <<"I", "C">>,
                       Plain("Thun", "departure", IsoText(Wed, 8, 0, 0)),
                       Plain("Bern", "arrival", IsoText(Wed, 8, 40, 0))),
           RideSection(LineIR15, <<"I", "R">>,
                       Checkpoint("Bern", "departure", IsoText(Wed, 8, 46, 0), Platform3,
                                  <<[departure |-> IsoText(Wed, 8, 50, 0)]>>),
                       Plain("Olten", "arrival", IsoText(Wed, 9, 10, 0))) >>)

\* The same departure and the same lines, with a walk between the rides, other
\* times, another duration and another transfer count.
RawTwoRidesWalk ==
    RawConnection(
        Plain("Thun", "departure", IsoText(Wed, 8, 0, 0)),
        Plain("Olten", "arrival", IsoText(Wed, 9, 20, 0)),
        Duration0120, 0,
        << RideSection(LineIC8, Undefined,
                       Plain("Thun", "departure", IsoText(Wed, 8, 0, 0)),
                       Plain("bern Wankdorf", "arrival", IsoText(Wed, 8, 35, 0))),
           WalkSection(Plain("bern Wankdorf", "departure", IsoText(Wed, 8, 35, 0)),
                       Plain("Bern", "arrival", IsoText(Wed, 8, 44, 0))),
           RideSection(LineIR15, Undefined,
                       Plain("Bern", "departure", IsoText(Wed, 8, 49, 0)),
                       Plain("Olten", "arrival", IsoText(Wed, 9, 20, 0))) >>)

\* One ride whose journey has a category and no name.
RawCategoryS ==
    RawConnection(
        Plain("Thun", "departure", IsoText(Wed, 8, 0, 0)),
        Plain("Spiez", "arrival", IsoText(Wed, 9, 10, 0)),
        Duration0110, 2,
        << RideSection(Undefined, <<"S">>,
                       Plain("Thun", "departure", IsoText(Wed, 8, 0, 0)),
                       Plain("Spiez", "arrival", IsoText(Wed, 9, 10, 0))) >>)

\* No departure time, no duration, no section.
RawBare ==
    RawConnection(Plain("Thun", "departure", Undefined), Plain("Olten", "arrival", Undefined),
                  Undefined, 0, <<>>)

\* A Saturday connection of more than a day on line S-7 and a bus.
RawLong ==
    RawConnection(
        Plain("Spiez", "departure", IsoText(7, 9, 0, 0)),
        Plain("Thun", "arrival", IsoText(7, 11, 0, 0)),
        Duration1d02, 1,
        << RideSection(LineS7, <<"S">>,
                       Plain("Spiez", "departure", IsoText(7, 9, 0, 0)),
                       Plain("Bern", "arrival", IsoText(7, 9, 30, 0))),
           RideSection(LineBus, <<"B">>,
                       Plain("Bern", "departure", IsoText(7, 9, 33, 0)),
                       Plain("Thun", "arrival", IsoText(7, 11, 0, 0))) >>)

RawConnectionPool ==
    {RawTwoRides, RawTwoRidesWalk, RawCategoryS, RawBare, RawLong}

\* What the provider answers: a status that is not 2xx, or a page of connections.
ProviderResponses ==
    {[ok |-> FALSE]}
        \cup {[ok |-> TRUE, connections |-> b] : b \in SeqsUpTo(RawConnectionPool, MaxBatch)}

\* The times new Date() reads.
Nows == {IsoText(Wed, 8, 15, 0), IsoText(7, 12, 0, 0)}

ConnInit ==
    /\ connProvider \in ProviderResponses
    /\ connOut = NotCalled
    /\ connPrev = NotCalled
    /\ RelIdle /\ DurIdle /\ NormIdle /\ WxIdle /\ DisIdle

\* A call of findConnections, answered with connProvider; the model follows two
\* calls, and the provider chooses its answer to the second during the first.
FindConnections ==
    /\ connPrev = NotCalled
    /\ \E now \in Nows :
          connOut' = [called |-> TRUE, response |-> connProvider,
                      ret |-> findConnections(connProvider, now)]
    /\ connPrev' = connOut
    /\ connProvider' \in (IF connOut = NotCalled THEN ProviderResponses ELSE {connProvider})
    /\ UNCHANGED <<relVars, durVars, normVars, wxVars, disVars>>

ConnNext == FindConnections

SpecConn == ConnInit /\ [][ConnNext]_vars

(***************************************************************************)
(* getWeatherInsights: the stations it is called with, the answers of the  *)
(* weather provider, and the steps of its concurrent lookups.              *)
(***************************************************************************)
StationCoord(name, lat, lon, time) == [name |-> name, lat |-> lat, lon |-> lon, time |-> time]

\* Bern and Bern Wankdorf share a cache key at 08:xx; Thun has another.
CoordBern == StationCoord("Bern", 46948, 7439, IsoText(Wed, 8, 40, 0))
CoordWankdorf == StationCoord("bern Wankdorf", 46951, 7441, IsoText(Wed, 8, 35, 0))
CoordThun == StationCoord("Thun", 46755, 7630, IsoText(Wed, 8, 0, 0))
\* A station whose time is the empty string.
CoordNoTime == StationCoord("Olten", 47352, 7908, <<>>)

WeatherStationLists ==
    { <<>>, <<CoordBern>>, <<CoordBern, CoordWankdorf>>, <<CoordThun, CoordBern>>,
      <<CoordBern, CoordNoTime>> }

\* The values of one hour, every one optional.
HourUnknown == <<>>
HourStorm ==
    [temperature_2m |-> 0 - 60, precipitation |-> 60, snowfall |-> 20,
     wind_speed_10m |-> 40, wind_gusts_10m |-> 70, weather_code |-> 75]
HourEdge == [temperature_2m |-> 0 - 50, precipitation |-> 50, wind_gusts_10m |-> 60]
HourShowers == [temperature_2m |-> 10, precipitation |-> 21, wind_gusts_10m |-> 40]

HourWindy == [temperature_2m |-> 9, precipitation |-> 5, wind_gusts_10m |-> 41]
HourFrost == [temperature_2m |-> 0 - 51, precipitation |-> 5, wind_gusts_10m |-> 40]

HourlyValues == {HourUnknown, HourStorm, HourEdge, HourShowers, HourWindy, HourFrost}

\* The hourly block of a forecast: the times and, for every value the provider
\* reports, one entry per time.
Hourly(times, values) ==
    [time |-> times] @@ [f \in DOMAIN values |-> [k \in 1..Len(times) |-> values[f]]]

Answer(rejects, ok, data) == [rejects |-> rejects, ok |-> ok, data |-> data]

\* What the provider answers to a request for Wednesday: nothing (the request
\* fails), a status that is not 2xx, a body without hourly block, an hourly block
\* without the hour 08, or a forecast of the hours 07 and 08.
ProviderAnswers ==
    { Answer(TRUE, FALSE, <<>>), Answer(FALSE, FALSE, <<>>), Answer(FALSE, TRUE, <<>>),
      Answer(FALSE, TRUE, [hourly |-> Hourly(<<IsoText(Wed, 7, 0, 0)>>, HourStorm)]) }
    \cup { Answer(FALSE, TRUE,
                  [hourly |-> Hourly(<<IsoText(Wed, 7, 0, 0), IsoText(Wed, 8, 0, 0)>>, v)]) :
             v \in HourlyValues }

\* The step of the clock between two events, and the last time of the model.
TickMs == CACHE_TTL_MS \div TicksPerTtl
LastNow == MaxTicks * TickMs

WxInit ==
    /\ wxNow = 0
    /\ wxCache = <<>>
    /\ wxHeap = <<>>
    /\ wxCall = NoCall
    /\ wxOut = NotCalled
    /\ wxPrev = NotCalled
    /\ RelIdle /\ DurIdle /\ NormIdle /\ ConnIdle /\ DisIdle

\* What a call that has settled leaves: the rejection, or the WeatherInsight
\* with, for the record, the stations asked, what became of every lookup, the
\* accumulation before the cap and the samples as they were when returned.
Thrown(stations, lookups) ==
    [called |-> TRUE, threw |-> TRUE, stations |-> stations, lookups |-> lookups]

ReturnedInsight(stations, lookups, heap, refs) ==
    [called |-> TRUE, threw |-> FALSE, stations |-> stations, lookups |-> lookups,
     ret |-> WeatherInsightOf(heap, refs),
     pass |-> WeatherLoop([k \in 1..Len(refs) |-> heap[refs[k]]]),
     returned |-> [k \in 1..Len(refs) |-> heap[refs[k]]]]

\* cache.get(key): <<entry>>, or <<>> for undefined.
EntryOf(cache, key) == IF key \in DOMAIN cache THEN <<cache[key]>> ELSE <<>>

\* getWeatherInsights(stations) is called: every lookup runs to its first await,
\* the lookups served from the cache name and push their sample, and the call
\* settles unless a request is on its way.  The call keeps, for the record, what
\* cache.get gave every lookup.  The model follows two calls, one after the other.
GetWeatherInsights ==
    /\ ~wxCall.active
    /\ wxPrev = NotCalled
    /\ \E stations \in WeatherStationLists :
          LET limited == Slice0(stations, StationLimit)
              first == LookupsFrom(limited, wxCache, wxNow, 1)
              heap == NameHits(wxHeap, limited, first.hits)
              refs == [k \in 1..Len(first.hits) |-> first.hits[k].ref]
              lookups == [k \in 1..Len(limited) |->
                            IF FormatThrows(limited[k].time) THEN "throws"
                            ELSE IF k \in first.pending THEN "requested" ELSE "hit"]
              found == [k \in 1..Len(limited) |->
                          IF FormatThrows(limited[k].time) THEN <<>>
                          ELSE EntryOf(wxCache, CacheKeyOf(limited[k].lat, limited[k].lon,
                                                           limited[k].time))]
              call == [active |-> TRUE, stations |-> limited, pending |-> first.pending,
                       samples |-> refs, lookups |-> lookups, rejected |-> first.rejected,
                       found |-> found]
          IN  /\ wxHeap' = heap
              /\ wxCall' = IF first.pending = {} THEN NoCall ELSE call
              /\ IF first.rejected
                 THEN wxOut' = Thrown(limited, lookups) /\ wxPrev' = wxOut
                 ELSE IF first.pending = {}
                 THEN wxOut' = ReturnedInsight(limited, lookups, heap, refs) /\ wxPrev' = wxOut
                 ELSE UNCHANGED <<wxOut, wxPrev>>
    /\ UNCHANGED <<wxNow, wxCache, relVars, durVars, normVars, connVars, disVars>>

\* The provider answers the request of lookup i: fetchWeatherForPoint caches and
\* returns a new sample, or returns null; the callback names and pushes the
\* sample; when it was the last lookup on its way the call settles.
FetchCompletes ==
    /\ wxCall.active
    /\ \E i \in wxCall.pending, answer \in ProviderAnswers :
          LET st == wxCall.stations[i]
              fetched == FetchedSample(st.lat, st.lon, st.time, answer)
              ref == Len(wxHeap) + 1
              heap == IF fetched.ok
                      THEN SetStation(Append(wxHeap, fetched.sample), ref, st.name)
                      ELSE wxHeap
              refs == IF fetched.ok THEN Append(wxCall.samples, ref) ELSE wxCall.samples
              lookups == [wxCall.lookups EXCEPT ![i] = IF fetched.ok THEN "fetched" ELSE "failed"]
              pending == wxCall.pending \ {i}
          IN  /\ wxHeap' = heap
              /\ wxCache' = CacheAfterFetch(wxCache, CacheKeyOf(st.lat, st.lon, st.time),
                                            fetched, ref, wxNow)
              /\ wxCall' = IF pending = {} THEN NoCall
                           ELSE [wxCall EXCEPT !.pending = pending, !.samples = refs,
                                               !.lookups = lookups]
              /\ IF pending = {} /\ ~wxCall.rejected
                 THEN /\ wxOut' = ReturnedInsight(wxCall.stations, lookups, heap, refs)
                      /\ wxPrev' = wxOut
                 ELSE UNCHANGED <<wxOut, wxPrev>>
    /\ UNCHANGED <<wxNow, relVars, durVars, normVars, connVars, disVars>>

\* Time passes; the model follows it until the second call has settled.
Tick ==
    /\ wxNow + TickMs <= LastNow
    /\ wxCall.active \/ wxPrev = NotCalled
    /\ wxNow' = wxNow + TickMs
    /\ UNCHANGED <<wxCache, wxHeap, wxCall, wxOut, wxPrev, relVars, durVars, normVars, connVars, disVars>>

WxNext == GetWeatherInsights \/ FetchCompletes \/ Tick

SpecWeather == WxInit /\ [][WxNext]_vars

(***************************************************************************)
(* checkDisruptions: the station it is called with, the answers of the     *)
(* provider to its requests, and its steps from one await to the next.     *)
(***************************************************************************)
Blank == <<" ">>

\* Bern is the one hub left out for bern Wankdorf.
StationWankdorf == <<"b", "e", "r", "n", " ", "W", "a", "n", "k", "d", "o", "r", "f">>
\* A name that leaves three hubs, and a name that leaves none.
StationJunction ==
    <<"Z", "Ü", "R", "I", "C", "H">> \o Blank \o HubBasel \o Blank \o HubBern \o Blank
        \o <<"G", "E", "N", "È", "V", "E">> \o Blank \o HubLausanne
StationEverywhere ==
    StationJunction \o Blank \o HubLuzern \o Blank \o HubWinterthur \o Blank \o HubStGallen

DisStations == {StationWankdorf, StationJunction, StationEverywhere}

\* One ride from Thun to Spiez that leaves m minutes after 08:00, its time.
RawLate(m) ==
    RawConnection(
        Plain("Thun", "departure", IsoText(Wed, 8, 0, 0)),
        Plain("Spiez", "arrival", IsoText(Wed, 9, 10, 0)),
        Duration0110, 0,
        << RideSection(LineIC8, <<"I", "C">>,
                       Checkpoint("Thun", "departure", IsoText(Wed, 8, 0, 0), Undefined,
                                  <<[departure |-> IsoText(Wed, 8, m, 0)]>>),
                       Plain("Spiez", "arrival", IsoText(Wed, 9, 10, 0))) >>)

\* Two rides, the first 6 and the second 20 minutes late.
RawTwoLate ==
    RawConnection(
        Plain("Thun", "departure", IsoText(Wed, 8, 0, 0)),
        Plain("Olten", "arrival", IsoText(Wed, 9, 30, 0)),
        Duration0120, 1,
        << RideSection(LineIC8, <<"I", "C">>,
                       Checkpoint("Thun", "departure", IsoText(Wed, 8, 0, 0), Undefined,
                                  <<[departure |-> IsoText(Wed, 8, 6, 0)]>>),
                       Plain("Bern", "arrival", IsoText(Wed, 8, 40, 0))),
           RideSection(LineIR15, <<"I", "R">>,
                       Checkpoint("Bern", "departure", IsoText(Wed, 8, 50, 0), Undefined,
                                  <<[departure |-> IsoText(Wed, 9, 10, 0)]>>),
                       Plain("Olten", "arrival", IsoText(Wed, 9, 30, 0))) >>)

Page(batch) == [ok |-> TRUE, connections |-> batch]

\* What the provider answers to a request about a station that leaves many hubs:
\* a failure, or a ride 35 minutes late and a ride on time.
DisAnswersFew == {[ok |-> FALSE], Page(<<RawLate(35), RawCategoryS>>)}

\* What it answers about a station that leaves few hubs: a failure, no
\* connection, rides on time, and rides late by 4, 15, 16, 30 and 31 minutes.
DisAnswersMany ==
    {[ok |-> FALSE], Page(<<>>), Page(<<RawCategoryS>>), Page(<<RawTwoRides>>),
     Page(<<RawCategoryS, RawTwoRides>>), Page(<<RawTwoLate>>)}
        \cup {Page(<<RawLate(m), RawCategoryS>>) : m \in {15, 16, 30, 31}}

DisProviderAnswers(stationName) ==
    IF Len(majorHubs(stationName)) > 3 THEN DisAnswersFew ELSE DisAnswersMany

DisInit ==
    /\ disStation \in DisStations
    /\ disCall = DisNoCall
    /\ disOut = NotCalled
    /\ RelIdle /\ DurIdle /\ NormIdle /\ ConnIdle /\ WxIdle

\* What a call that has returned leaves: the report and, for the record, the hubs
\* chosen, the requests sent and what became of each.
DisReturned(hubs, requests, outcomes, tally, now) ==
    [called |-> TRUE, hubs |-> hubs, requests |-> requests, outcomes |-> outcomes,
     ret |-> ReportOf(disStation, hubs, tally, now)]

\* checkDisruptions(disStation) is called: it chooses its hubs and runs to the
\* first await, the request about the first hub; with no hub it returns at once.
CheckDisruptions ==
    /\ ~disCall.active
    /\ disOut = NotCalled
    /\ \E hubsToCheck \in hubsToCheckChoices(majorHubs(disStation)) :
          IF Len(hubsToCheck) = 0
          THEN /\ \E now \in Nows :
                     disOut' = DisReturned(hubsToCheck, <<>>, <<>>, NoTally, now)
               /\ disCall' = DisNoCall
          ELSE /\ disCall' = [active |-> TRUE, hubs |-> hubsToCheck, inFlight |-> {1},
                              requests |-> <<hubsToCheck[1]>>, outcomes |-> <<>>,
                              tally |-> NoTally]
               /\ disOut' = disOut
    /\ UNCHANGED <<disStation, relVars, durVars, normVars, connVars, wxVars>>

\* The request in flight is answered or fails: findConnections returns or throws,
\* the turn of the loop tallies it, and the call runs to the request about the
\* next hub or, after the last hub, returns its report.
HubAnswers ==
    /\ disCall.active
    /\ \E i \in disCall.inFlight, answer \in DisProviderAnswers(disStation), now \in Nows :
       \E result \in {findConnections(answer, now)} :
       \E tally \in {TallyResult(disCall.tally, result)} :
       \E next \in {NextRequests(disCall.hubs, i, result)} :
          LET outcomes ==
                  Append(disCall.outcomes,
                         IF result.threw THEN "failed"
                         ELSE IF Len(result.connections) = 0 THEN "empty" ELSE "answered")
              inFlight == (disCall.inFlight \ {i}) \cup {next[k] : k \in 1..Len(next)}
              requests == disCall.requests \o [k \in 1..Len(next) |-> disCall.hubs[next[k]]]
          IN  IF inFlight # {}
              THEN /\ disCall' = [disCall EXCEPT !.inFlight = inFlight,
                                                 !.requests = requests,
                                                 !.outcomes = outcomes,
                                                 !.tally = tally]
                   /\ disOut' = disOut
              ELSE /\ disCall' = DisNoCall
                   /\ \E at \in Nows :
                         disOut' = DisReturned(disCall.hubs, requests, outcomes, tally, at)
    /\ UNCHANGED <<disStation, relVars, durVars, normVars, connVars, wxVars>>

DisNext == CheckDisruptions \/ HubAnswers

SpecDisr == DisInit /\ [][DisNext]_vars

(***************************************************************************)
(* Everything together: one of the operations is called on its inputs.     *)
(***************************************************************************)
Init == RelInit \/ DurInit \/ NormInit \/ ConnInit \/ WxInit \/ DisInit

Next == RelNext \/ DurNext \/ NormNext \/ ConnNext \/ WxNext \/ DisNext

Spec == Init /\ [][Next]_vars

(***************************************************************************)
(* Properties of calculateReliability, under SpecRel.                      *)
(***************************************************************************)

\* C1: for every list of legs (empty and single-leg lists included) and every
\* departure time, the score returned is between 0 and 1 (0 and 100 hundredths),
\* whatever the total penalty.
C1_ScoreInUnitInterval ==
    relOut.called => relOut.ret.score >= 0 /\ relOut.ret.score <= 100

\* A call whose total penalty exceeds 1, so that the score is floored.
C1_Witness ==
    relOut.called /\ relOut.pass.totalPenalty > 100 /\ relOut.ret.score = 0

\* C5: with at least one leg, transferRisks has legs.length - 1 entries and the
\* k-th describes the transfer from leg k to leg k + 1, whatever its margin.
C5_TransferRisksPerTransfer ==
    (relOut.called /\ Len(relLegs) >= 1) =>
        /\ Len(relOut.ret.transferRisks) = Len(relLegs) - 1
        /\ \A k \in 1..(Len(relLegs) - 1) :
              /\ relOut.ret.transferRisks[k].fromStation = relLegs[k].to.name
              /\ relOut.ret.transferRisks[k].toStation = relLegs[k + 1].from.name

\* Three legs, the first transfer with a comfortable margin and no penalty, the
\* second between two different stops: both are recorded.
C5_Witness ==
    /\ relOut.called
    /\ Len(relLegs) = 3
    /\ Len(relOut.ret.transferRisks) = 2
    /\ JsGe(relOut.ret.transferRisks[1].marginMinutes, SilentMargin)
    /\ relOut.ret.transferRisks[2].fromStation # relOut.ret.transferRisks[2].toStation
    /\ relOut.pass.transferPenalties[1] = 0

\* C6: the reasons returned are at most 3, sorted by penalty in non-increasing
\* order, and are the largest of the reasons the pass produced: no reason that
\* was dropped has a strictly larger penalty than one that was kept.
C6_ReasonsTopThreeSorted ==
    relOut.called =>
        LET kept == relOut.ret.reasons
            produced == relOut.pass.reasons
        IN  /\ Len(kept) <= 3
            /\ Len(kept) = Min(3, Len(produced))
            /\ \A i \in 1..(Len(kept) - 1) : kept[i].penalty >= kept[i + 1].penalty
            /\ \E K \in SUBSET (1..Len(produced)) :
                  /\ Cardinality(K) = Len(kept)
                  /\ \E f \in [1..Len(kept) -> K] :
                        /\ \A i, j \in 1..Len(kept) : i # j => f[i] # f[j]
                        /\ \A i \in 1..Len(kept) : kept[i] = produced[f[i]]
                  /\ \A j \in (1..Len(produced)) \ K : \A k \in K :
                        produced[j].penalty <= produced[k].penalty

\* More than three reasons were produced, and not in the order of their penalties.
C6_Witness ==
    /\ relOut.called
    /\ Len(relOut.pass.reasons) > 3
    /\ \E i \in 1..(Len(relOut.pass.reasons) - 1) :
          relOut.pass.reasons[i].penalty < relOut.pass.reasons[i + 1].penalty
    /\ relOut.ret.reasons # Slice0(relOut.pass.reasons, 3)

\* The example of C9: two legs, the first arriving at 08:40 (no live time that
\* differs), the second planned to depart at 08:46 the same day.
C9_Example ==
    /\ relOut.called
    /\ Len(relLegs) = 2
    /\ "timeActual" \notin DOMAIN relLegs[1].to
    /\ \E d \in 1..7 :
          /\ relLegs[1].to.timePlanned = IsoText(d, 8, 40, 0)
          /\ relLegs[2].from.timePlanned = IsoText(d, 8, 46, 0)

\* C9 as stated: the example has margin 6 and is scored with risk "medium",
\* transfer penalty 0.20 and a reason "short_transfer".
C9_AsStated ==
    C9_Example =>
        /\ relOut.ret.transferRisks[1].marginMinutes = 6
        /\ relOut.ret.transferRisks[1].riskLevel = "medium"
        /\ relOut.pass.transferPenalties[1] = 20
        /\ HasCode(relOut.pass.reasons, "short_transfer")

\* C9 (amended): the example has margin 6 and is scored with risk "low",
\* transfer penalty 0.10 and no reason "short_transfer" or "tight_transfer".
C9_MarginSixIsSilent ==
    C9_Example =>
        /\ relOut.ret.transferRisks[1].marginMinutes = 6
        /\ relOut.ret.transferRisks[1].riskLevel = "low"
        /\ relOut.pass.transferPenalties[1] = 10
        /\ ~HasCode(relOut.pass.reasons, "short_transfer")
        /\ ~HasCode(relOut.pass.reasons, "tight_transfer")

C9_Witness == C9_Example /\ Len(relOut.ret.transferRisks) = 1

\* The departure time is a time of a day from Monday to Friday.
C11_MondayToFriday == IsTimestamp(relDeparture) /\ relDeparture[1] \in {"2", "3", "4", "5", "6"}

\* Its hour and minute are in 07:00-09:00 or in 16:30-18:30, bounds included.
C11_InPeakWindow ==
    LET hh == 10 * DigitVal(relDeparture[3]) + DigitVal(relDeparture[4])
        mm == 10 * DigitVal(relDeparture[6]) + DigitVal(relDeparture[7])
    IN  \/ hh \in {7, 8} \/ (hh = 9 /\ mm = 0)
        \/ (hh = 16 /\ mm >= 30) \/ hh = 17 \/ (hh = 18 /\ mm <= 30)

\* C11: the peak-time penalty of 0.08 and its reason "peak_time" are applied
\* exactly when the departure time is on Monday to Friday with its hour and
\* minute in 07:00-09:00 or 16:30-18:30, bounds included; never on Saturday or
\* Sunday, and never when the departure time is no time.
C11_PeakTimePenalty ==
    relOut.called =>
        LET peak == C11_MondayToFriday /\ C11_InPeakWindow
            pushed == {k \in 1..Len(relOut.pass.reasons) :
                         relOut.pass.reasons[k].code = "peak_time"}
        IN  /\ relOut.pass.peakPenalty = (IF peak THEN 8 ELSE 0)
            /\ Cardinality(pushed) = (IF peak THEN 1 ELSE 0)
            /\ \A k \in pushed : relOut.pass.reasons[k].penalty = 8

\* A departure on Friday at 09:00:59, at the end of the morning window.
C11_Witness ==
    /\ relOut.called
    /\ relDeparture = IsoText(6, 9, 0, 59)
    /\ relOut.pass.peakPenalty = 8
    /\ HasCode(relOut.pass.reasons, "peak_time")

\* C13: the level returned is fixed by the score returned: "low" exactly when
\* score >= 0.75, "medium" exactly when 0.55 <= score < 0.75, "high" exactly when
\* score < 0.55.
C13_LevelOfScore ==
    relOut.called =>
        LET score == relOut.ret.score
            level == relOut.ret.level
        IN  /\ level = "low" <=> score >= 75
            /\ level = "medium" <=> (score >= 55 /\ score < 75)
            /\ level = "high" <=> score < 55

\* A score of exactly 0.55, the lowest that is "medium".
C13_Witness ==
    relOut.called /\ relOut.ret.score = 55 /\ relOut.ret.level = "medium"

\* The margin of the k-th transfer: the minutes, rounded, from the arrival of
\* leg k (the actual time if it has one, else the planned time) to the planned
\* departure of leg k + 1; NaN when one of the two is no time.
C16_Margin(k) ==
    LET to == relLegs[k].to
        arrival == IF "timeActual" \in DOMAIN to /\ to.timeActual # <<>>
                   THEN to.timeActual ELSE to.timePlanned
        departure == relLegs[k + 1].from.timePlanned
    IN  IF IsTimestamp(arrival) /\ IsTimestamp(departure)
        THEN RoundMinutes(DateGetTime(departure) - DateGetTime(arrival))
        ELSE NaN

\* The transfers whose margin is a number from lo to hi - 1.
C16_TransfersIn(lo, hi) ==
    {k \in 1..(Len(relLegs) - 1) :
        ~IsNaN(C16_Margin(k)) /\ C16_Margin(k) >= lo /\ C16_Margin(k) < hi}

\* The number of reasons of the pass that have the code.
C16_Pushed(code) ==
    Cardinality({j \in 1..Len(relOut.pass.reasons) : relOut.pass.reasons[j].code = code})

\* C16: every transfer is scored by its margin: below 4 (negative included)
\* penalty 0.35 and risk "high", from 4 to below 6 penalty 0.20 and risk
\* "medium", from 6 to below 8 penalty 0.10 and risk "low", from 8 on penalty 0
\* and risk "low"; one "tight_transfer" reason is pushed for every transfer of
\* the first class, one "short_transfer" reason for every transfer of the
\* second, and none for the others.
C16_MarginClasses ==
    relOut.called =>
        /\ \A k \in 1..(Len(relLegs) - 1) :
              LET margin == C16_Margin(k)
                  risk == relOut.ret.transferRisks[k]
                  penalty == relOut.pass.transferPenalties[k]
              IN  /\ risk.marginMinutes = margin
                  /\ ~IsNaN(margin) =>
                        /\ margin < 4 => (penalty = 35 /\ risk.riskLevel = "high")
                        /\ (margin >= 4 /\ margin < 6) =>
                              (penalty = 20 /\ risk.riskLevel = "medium")
                        /\ (margin >= 6 /\ margin < 8) =>
                              (penalty = 10 /\ risk.riskLevel = "low")
                        /\ margin >= 8 => (penalty = 0 /\ risk.riskLevel = "low")
        /\ C16_Pushed("tight_transfer") = Cardinality(C16_TransfersIn(0 - 100000, 4))
        /\ C16_Pushed("short_transfer") = Cardinality(C16_TransfersIn(4, 6))

\* Three legs with two tight transfers, one of them of negative margin and one
\* measured from an actual arrival: two "tight_transfer" reasons.
C16_Witness ==
    /\ relOut.called
    /\ Len(relLegs) = 3
    /\ C16_TransfersIn(0 - 100000, 4) = {1, 2}
    /\ C16_Margin(1) < 0
    /\ "timeActual" \in DOMAIN relLegs[2].to
    /\ C16_Pushed("tight_transfer") = 2

\* The transfers that take place at a recognized big station.
C17_BigStationTransfers ==
    {k \in 1..(Len(relLegs) - 1) : relOut.ret.transferRisks[k].isBigStation}

\* C17 as stated: the big-station rule adds 0.08 to the total penalty when a
\* transfer takes place at a big station, and 0.08 only, however many transfers
\* do.
C17_AsStated ==
    relOut.called =>
        relOut.pass.stationPenalty = (IF C17_BigStationTransfers = {} THEN 0 ELSE 8)

\* The legs that have delayMinutes > 3.
C18_DelayedLegs ==
    {k \in 1..Len(relLegs) : "delayMinutes" \in DOMAIN relLegs[k] /\ relLegs[k].delayMinutes > 3}

\* C18 as stated: the live-delay rule adds 0.05 to the total penalty when a leg
\* has delayMinutes > 3, and 0.05 only, however many legs have; it adds nothing
\* when no leg has.
C18_AsStated ==
    relOut.called =>
        relOut.pass.delayPenalty = (IF C18_DelayedLegs = {} THEN 0 ELSE 5)

(***************************************************************************)
(* Properties of parseDuration, under SpecDur.                             *)
(***************************************************************************)
\* The number two decimal digits write.
C10_TwoDigitValue(s, p) == 10 * DigitVal(s[p]) + DigitVal(s[p + 1])

\* s is HH:MM:SS.
C10_IsClock(s) ==
    /\ s # Undefined
    /\ Len(s) = 8
    /\ \A i \in {1, 2, 4, 5, 7, 8} : s[i] \in Digits
    /\ s[3] = ":" /\ s[6] = ":"

\* s holds HH:MM:SS somewhere.
C10_HoldsClock(s) ==
    /\ s # Undefined
    /\ \E p \in 1..Len(s) : p + 7 <= Len(s) /\ C10_IsClock(SubSeq(s, p, p + 7))

\* The number the digits of s write.
RECURSIVE C10_Decimal(_, _)
C10_Decimal(s, acc) ==
    IF Len(s) = 0 THEN acc ELSE C10_Decimal(Tail(s), 10 * acc + DigitVal(Head(s)))

\* C10: parseDuration returns days * 1440 + hours * 60 + minutes for HH:MM:SS
\* with or without a day component before it, the seconds ignored ("01:02:03"
\* gives 62, "1d02:00:00" gives 1560), and returns 0 for an absent string and
\* for a string that holds no HH:MM:SS; it always returns a number.
C10_ParseDuration ==
    durOut.called =>
        /\ durOut.ret >= 0
        /\ C10_IsClock(durIn) =>
              durOut.ret = 60 * C10_TwoDigitValue(durIn, 1) + C10_TwoDigitValue(durIn, 4)
        /\ \A n \in 1..2 :
              ( /\ durIn # Undefined
                /\ Len(durIn) = n + 9
                /\ \A i \in 1..n : durIn[i] \in Digits
                /\ durIn[n + 1] = "d"
                /\ C10_IsClock(SubSeq(durIn, n + 2, n + 9)) )
              => durOut.ret = 1440 * C10_Decimal(SubSeq(durIn, 1, n), 0)
                                  + 60 * C10_TwoDigitValue(durIn, n + 2)
                                  + C10_TwoDigitValue(durIn, n + 5)
        /\ ~C10_HoldsClock(durIn) => durOut.ret = 0
        /\ durIn = <<"0", "1", ":", "0", "2", ":", "0", "3">> => durOut.ret = 62
        /\ durIn = <<"1", "d", "0", "2", ":", "0", "0", ":", "0", "0">> => durOut.ret = 1560

\* A duration with days, hours, minutes and seconds has been parsed.
C10_Witness ==
    /\ durOut.called
    /\ durIn = <<"1", "2">> \o <<"d">> \o ClockText(23, 59, 3)
    /\ durOut.ret = 12 * 1440 + 23 * 60 + 59

\* An unparseable string has been parsed to 0.
C10_WitnessUnparseable ==
    /\ durOut.called
    /\ durIn = <<"1", "d", "2", ":", "0", "0", ":", "0", "0">>
    /\ durOut.ret = 0

(***************************************************************************)
(* Properties of normalizeLegs, under SpecNorm.                            *)
(***************************************************************************)
\* The live departure time of a raw section, Undefined when there is none.
C4_LiveDeparture(section) ==
    IF "prognosis" \in DOMAIN section.departure
       /\ "departure" \in DOMAIN section.departure.prognosis
    THEN section.departure.prognosis.departure
    ELSE Undefined

\* The scheduled departure time of a raw section, Undefined when there is none.
C4_ScheduledDeparture(section) ==
    IF "departure" \in DOMAIN section.departure THEN section.departure.departure
    ELSE Undefined

\* (live departure - scheduled departure) rounded to minutes.
C4_RoundedDifference(section) ==
    RoundMinutes(DateGetTime(C4_LiveDeparture(section))
                     - DateGetTime(C4_ScheduledDeparture(section)))

\* C4: a leg carries delayMinutes only when the section has a live and a
\* scheduled departure time and their difference, rounded to minutes, is strictly
\* positive; delayMinutes is then that difference of the departure checkpoint,
\* whatever the arrival checkpoint says, and is never zero or negative.
C4_DelayOnlyWhenPositive ==
    normOut.called =>
        \A i \in 1..Len(normSections) :
            "delayMinutes" \in DOMAIN normOut.ret[i] =>
                /\ IsTimestamp(C4_LiveDeparture(normSections[i]))
                /\ IsTimestamp(C4_ScheduledDeparture(normSections[i]))
                /\ C4_RoundedDifference(normSections[i]) > 0
                /\ normOut.ret[i].delayMinutes = C4_RoundedDifference(normSections[i])
                /\ normOut.ret[i].delayMinutes > 0

\* Two sections whose arrival is 5 min late: the first departs 20 s late and
\* its leg carries no delay, the second departs 3 min 29 s late and carries 3.
C4_Witness ==
    /\ normOut.called
    /\ Len(normSections) = 2
    /\ \A i \in 1..2 :
          /\ "prognosis" \in DOMAIN normSections[i].arrival
          /\ normOut.ret[i].to.timeActual = IsoText(Wed, 8, 45, 0)
    /\ C4_LiveDeparture(normSections[1]) = IsoText(Wed, 8, 0, 20)
    /\ C4_ScheduledDeparture(normSections[1]) = IsoText(Wed, 8, 0, 0)
    /\ "delayMinutes" \notin DOMAIN normOut.ret[1]
    /\ C4_LiveDeparture(normSections[2]) = IsoText(Wed, 8, 3, 29)
    /\ C4_ScheduledDeparture(normSections[2]) = IsoText(Wed, 8, 0, 0)
    /\ normOut.ret[2].delayMinutes = 3

(***************************************************************************)
(* Properties of findConnections, under SpecConn.                          *)
(***************************************************************************)
Carries(connection, tag) == \E k \in 1..Len(connection.tags) : connection.tags[k] = tag

\* A call of findConnections has returned the connections of a batch.
Returned(out) == out.called /\ ~out.ret.threw

\* The tags of the connections cs of one batch, as C3 gives them.
C3_Tags(cs) ==
    /\ \E i \in 1..Len(cs) : Carries(cs[i], "fastest")
    /\ \A i \in 1..Len(cs) :
          (\A j \in 1..Len(cs) : cs[i].durationMinutes <= cs[j].durationMinutes)
              => Carries(cs[i], "fastest")
    /\ \E i \in 1..Len(cs) : Carries(cs[i], "fewest transfers")
    /\ \A i \in 1..Len(cs) :
          (\A j \in 1..Len(cs) : cs[i].transfersCount <= cs[j].transfersCount)
              => Carries(cs[i], "fewest transfers")
    /\ Cardinality({i \in 1..Len(cs) : Carries(cs[i], "recommended")}) = 1
    /\ Carries(cs[1], "recommended")

\* C3 as stated: every batch has a connection tagged "fastest", one tagged
\* "fewest transfers" and exactly one, the first, tagged "recommended".
C3_AsStated ==
    Returned(connOut) =>
        LET cs == connOut.ret.connections
        IN  /\ \E i \in 1..Len(cs) : Carries(cs[i], "fastest")
            /\ \E i \in 1..Len(cs) : Carries(cs[i], "fewest transfers")
            /\ Cardinality({i \in 1..Len(cs) : Carries(cs[i], "recommended")}) = 1

\* C3 (amended): every batch of at least one connection has a connection tagged
\* "fastest" (every connection of minimal duration is), one tagged "fewest
\* transfers" (every connection of minimal transfer count is) and exactly one,
\* the first, tagged "recommended".
C3_TagsOfNonEmptyBatch ==
    (Returned(connOut) /\ Len(connOut.ret.connections) >= 1) =>
        C3_Tags(connOut.ret.connections)

\* A batch of two whose second connection is the only fastest one and whose
\* first is the only one with the fewest transfers.
C3_Witness ==
    /\ Returned(connOut)
    /\ Len(connOut.ret.connections) = 2
    /\ connOut.ret.connections[1].durationMinutes > connOut.ret.connections[2].durationMinutes
    /\ connOut.ret.connections[1].transfersCount < connOut.ret.connections[2].transfersCount
    /\ connOut.ret.connections[1].tags = <<"fewest transfers", "recommended">>
    /\ connOut.ret.connections[2].tags = <<"fastest">>

\* The raw connections a call normalized, each with the id it was given and its
\* place (call, index).
C8_NormalizedOf(out) ==
    { [raw |-> out.response.connections[i], id |-> out.ret.connections[i].id,
       call |-> IF out = connPrev THEN 1 ELSE 2, index |-> i] :
        i \in 1..Len(out.ret.connections) }

\* The same for the two calls the model follows.
C8_AllNormalized ==
    (IF Returned(connOut) THEN C8_NormalizedOf(connOut) ELSE {})
        \cup (IF Returned(connPrev) THEN C8_NormalizedOf(connPrev) ELSE {})

\* The departure time of a raw connection, "" when it has none.
C8_Departure(raw) ==
    IF "departure" \in DOMAIN raw.from THEN raw.from.departure ELSE <<>>

\* The text the id is made of: the departure time, "-", and the names of the
\* journeys joined by "-".
C8_Text(raw) == C8_Departure(raw) \o <<"-">> \o JoinDash(JourneyNames(raw))

\* C8: two normalizations (in the same call or in two calls, at any index) of raw
\* connections with the same departure time and the same sequence of journey
\* names give the same id, and the id is the departure time and the journey names
\* with every character other than a letter, a digit or "-" replaced by "_".
C8_IdDeterministic ==
    /\ \A a, b \in C8_AllNormalized :
          ( /\ C8_Departure(a.raw) = C8_Departure(b.raw)
            /\ JourneyNames(a.raw) = JourneyNames(b.raw) ) => a.id = b.id
    /\ \A a \in C8_AllNormalized :
          /\ Len(a.id) = Len(C8_Text(a.raw))
          /\ \A k \in 1..Len(a.id) :
                a.id[k] = IF C8_Text(a.raw)[k] \in Letters \cup Digits \cup {"-"}
                          THEN C8_Text(a.raw)[k] ELSE "_"

\* Two calls: the same raw connection normalized at index 1 of one and index 2 of
\* the other, and another raw connection with the same departure and lines.
C8_Witness ==
    /\ Returned(connOut) /\ Returned(connPrev)
    /\ \E a, b, c \in C8_AllNormalized :
          /\ a.raw = b.raw /\ a.call # b.call /\ a.index # b.index
          /\ c.raw # a.raw /\ c.id = a.id
          /\ \E k \in 1..Len(a.id) : a.id[k] = "_"
          /\ \E k \in 1..Len(a.id) : a.id[k] = "-"

(***************************************************************************)
(* Properties of getWeatherInsights, under SpecWeather.                    *)
(***************************************************************************)
\* The WeatherInsights the calls of the model have returned.
Insights ==
    (IF wxOut.called /\ ~wxOut.threw THEN {wxOut} ELSE {})
        \cup (IF wxPrev.called /\ ~wxPrev.threw THEN {wxPrev} ELSE {})

\* C2: whatever the stations asked and whatever became of their lookups (served
\* from the cache, fetched, failed), the penalty getWeatherInsights returns is at
\* least 0 and at most 0.35.
C2_PenaltyInRange ==
    \A out \in Insights : out.ret.penalty >= 0 /\ out.ret.penalty <= 35

\* A call whose first lookup was fetched and whose second was served from the
\* cache, returning 0.35 for an accumulated 0.86, after a call in which a lookup
\* failed.
C2_Witness ==
    /\ wxOut.called /\ ~wxOut.threw
    /\ wxPrev.called /\ ~wxPrev.threw
    /\ \E k \in 1..Len(wxPrev.lookups) : wxPrev.lookups[k] = "failed"
    /\ wxOut.lookups = <<"fetched", "hit">>
    /\ wxOut.pass.totalPenalty = 86
    /\ wxOut.ret.penalty = 35

\* C7: the reasons getWeatherInsights returns are at most 2, their penalties
\* never increase from one to the next, and no two of them have the same code.
C7_WeatherReasonsTopTwo ==
    \A out \in Insights :
        LET reasons == out.ret.reasons
        IN  /\ Len(reasons) <= 2
            /\ \A k \in 1..(Len(reasons) - 1) : reasons[k].penalty >= reasons[k + 1].penalty
            /\ \A j, k \in 1..Len(reasons) : reasons[j].code = reasons[k].code => j = k

\* Two samples that both bring snow, six codes in all, pushed in an order that is
\* not the order of the penalties: the two reasons returned are the snow and the
\* strong gusts.
C7_Witness ==
    /\ wxOut.called /\ ~wxOut.threw
    /\ Len(wxOut.returned) = 2
    /\ \A k \in 1..2 : wxOut.returned[k].temperature < 10 /\ wxOut.returned[k].precipitation > 5
    /\ Len(wxOut.pass.reasons) = 6
    /\ wxOut.pass.reasons[2].penalty < wxOut.pass.reasons[3].penalty
    /\ Len(wxOut.ret.reasons) = 2
    /\ wxOut.ret.reasons[1].code = "snow_risk"
    /\ wxOut.ret.reasons[2].code = "high_wind"

\* The sum of the penalties of reasons.
RECURSIVE C19_SumOfPenalties(_)
C19_SumOfPenalties(reasons) ==
    IF Len(reasons) = 0 THEN 0 ELSE Head(reasons).penalty + C19_SumOfPenalties(Tail(reasons))

\* C19 as stated: the total before the cap is the sum of the penalties of the
\* distinct codes the samples trigger (the reasons of the pass hold every such
\* code once), however many samples trigger a code.
C19_AsStated ==
    \A out \in Insights : out.pass.totalPenalty = C19_SumOfPenalties(out.pass.reasons)

\* The calls of getWeatherInsights that have settled.
C14_Settled ==
    (IF wxOut.called THEN {wxOut} ELSE {}) \cup (IF wxPrev.called THEN {wxPrev} ELSE {})

\* The stations of a call whose lookup gave a sample.
C14_Succeeded(out) ==
    {i \in 1..Len(out.stations) : out.lookups[i] \in {"hit", "fetched"}}

\* C14 as stated: whatever lookups fail and in whatever order the lookups
\* complete, the call returns a WeatherInsight (it never raises) and the samples
\* it returns are those of the stations whose lookups succeeded, one each, under
\* the names of these stations.
C14_AsStated ==
    \A out \in C14_Settled :
        /\ ~out.threw
        /\ Len(out.returned) = Cardinality(C14_Succeeded(out))
        /\ \A i \in C14_Succeeded(out) :
              \E k \in 1..Len(out.returned) : out.returned[k].station = out.stations[i].name

\* The key of a station: its latitude and longitude rounded to hundredths of a
\* degree, its local date and its local hour.
C20_Key(station) ==
    <<"weather", (station.lat + 5) \div 10, (station.lon + 5) \div 10, station.time[1],
      10 * DigitVal(station.time[3]) + DigitVal(station.time[4])>>

\* A step in which getWeatherInsights is called.
C20_CallStarts ==
    ~wxCall.active /\ <<wxCall, wxOut, wxPrev>>' # <<wxCall, wxOut, wxPrev>>

\* In a step in which getWeatherInsights is called, a lookup is served from the
\* cache exactly when the cache holds an entry for its key that expires later
\* than now, and it then returns the sample of that entry (which is among the
\* samples of the call unless the call has raised); otherwise it sends a request.
C20_HitIffFresh ==
    C20_CallStarts =>
        LET started == IF wxCall'.active THEN wxCall' ELSE wxOut'
            samples == IF wxCall'.active THEN wxCall'.samples
                       ELSE IF wxOut'.threw THEN <<>> ELSE wxOut'.ret.samples
        IN  \A i \in 1..Len(started.stations) :
                LET station == started.stations[i]
                    fresh == /\ C20_Key(station) \in DOMAIN wxCache
                             /\ wxCache[C20_Key(station)].expires > wxNow
                IN  IsTimestamp(station.time) =>
                        /\ started.lookups[i] = "hit" <=> fresh
                        /\ started.lookups[i] = "requested" <=> ~fresh
                        /\ (fresh /\ (wxCall'.active \/ ~wxOut'.threw)) =>
                              \E k \in 1..Len(samples) :
                                  samples[k] = wxCache[C20_Key(station)].data

\* The cache changes, or a sample is made, only when a request that was on its
\* way gives a sample: the entry of its key then holds the new sample and expires
\* 15 minutes later.
C20_WrittenByFetch ==
    (wxCache' # wxCache \/ Len(wxHeap') # Len(wxHeap)) =>
        /\ wxCall.active
        /\ Len(wxHeap') = Len(wxHeap) + 1
        /\ \E i \in wxCall.pending :
              wxCache' = (C20_Key(wxCall.stations[i])
                            :> [data |-> Len(wxHeap'), expires |-> wxNow + 900000]) @@ wxCache

\* C20: a lookup returns the cached sample and sends no request exactly when the
\* cache holds an entry for its key (coordinates rounded to 2 decimals, local
\* date, local hour) that expires strictly later than now; entries are written
\* by successful fetches only and expire 15 minutes after they are written, so
\* no entry is ever valid more than 15 minutes from now.
C20_CacheLookup ==
    /\ [][C20_HitIffFresh]_vars
    /\ [][C20_WrittenByFetch]_vars
    /\ [](\A key \in DOMAIN wxCache : wxCache[key].expires <= wxNow + 900000)

\* A second call 15 minutes after the start: the entry of Thun, written at the
\* start, expires now and its lookup has sent a request; the entry of Bern,
\* written 5 minutes later, has served its lookup.
C20_Witness ==
    /\ wxPrev = NotCalled /\ wxOut.called
    /\ wxCall.active
    /\ wxCall.stations = <<CoordThun, CoordBern>>
    /\ wxCall.lookups = <<"requested", "hit">>
    /\ C20_Key(CoordThun) \in DOMAIN wxCache
    /\ wxCache[C20_Key(CoordThun)].expires = wxNow
    /\ wxCache[C20_Key(CoordBern)].expires > wxNow

(***************************************************************************)
(* Properties of checkDisruptions, under SpecDisr.                         *)
(***************************************************************************)
\* C12: the status of every report is the first of four rules that matches its
\* tallies: "disrupted" iff cancelledOrMissing >= 2 or maxDelay > 30; otherwise
\* "major_delays" iff maxDelay > 15 or delayedCount > totalChecked * 0.5;
\* otherwise "minor_delays" iff maxDelay > 5 or delayedCount > 0; otherwise
\* "normal".  A report with maxDelay 35 and cancelledOrMissing 0 is "disrupted".
C12_StatusByPrecedence ==
    disOut.called =>
        LET report == disOut.ret
            maxDelay == report.maxDelayMinutes
            delayedCount == report.delayedConnectionsCount
            first == report.cancelledOrMissing >= 2 \/ maxDelay > 30
            second == maxDelay > 15 \/ 2 * delayedCount > report.totalConnectionsChecked
            third == maxDelay > 5 \/ delayedCount > 0
        IN  /\ report.status = "disrupted" <=> first
            /\ report.status = "major_delays" <=> (~first /\ second)
            /\ report.status = "minor_delays" <=> (~first /\ ~second /\ third)
            /\ report.status = "normal" <=> (~first /\ ~second /\ ~third)
            /\ (maxDelay = 35 /\ report.cancelledOrMissing = 0) =>
                   report.status = "disrupted"

\* Every hub answered, the worst delay 35 minutes: the report is "disrupted".
C12_Witness ==
    /\ disOut.called
    /\ disOut.outcomes = <<"answered", "answered", "answered", "answered">>
    /\ disOut.ret.maxDelayMinutes = 35
    /\ disOut.ret.cancelledOrMissing = 0
    /\ disOut.ret.status = "disrupted"

\* The hubs whose request failed or gave no connection.
C15_Missing(outcomes) ==
    Cardinality({k \in 1..Len(outcomes) : outcomes[k] \in {"failed", "empty"}})

\* C15, one request: when the request about hub i fails or gives no connection,
\* cancelledOrMissing grows by exactly one (and by nothing when it gives
\* connections), and the call goes on: it asks about hub i + 1, or after the last
\* hub it returns its report.
C15_OneRequest ==
    (disCall.active /\ disCall' # disCall) =>
        LET i == Len(disCall.outcomes) + 1
            after == IF disCall'.active THEN disCall' ELSE disOut'
            count == IF disCall'.active THEN disCall'.tally.cancelledOrMissing
                     ELSE disOut'.ret.cancelledOrMissing
        IN  /\ Len(after.outcomes) = i
            /\ count = disCall.tally.cancelledOrMissing
                          + (IF after.outcomes[i] \in {"failed", "empty"} THEN 1 ELSE 0)
            /\ IF i < Len(disCall.hubs)
               THEN /\ disCall'.active
                    /\ disCall'.requests = Append(disCall.requests, disCall.hubs[i + 1])
                    /\ disOut' = disOut
               ELSE ~disCall'.active /\ disOut'.called

\* C15, the report: every selected hub was asked, and cancelledOrMissing is the
\* number of hubs whose request failed or gave no connection.
C15_Report ==
    disOut.called =>
        /\ disOut.requests = disOut.hubs
        /\ Len(disOut.outcomes) = Len(disOut.hubs)
        /\ Len(disOut.ret.routesChecked) = Len(disOut.hubs)
        /\ disOut.ret.cancelledOrMissing = C15_Missing(disOut.outcomes)

\* C15: a failed or empty request counts one and does not end the loop.
C15_FailuresAreCounted == [][C15_OneRequest]_vars /\ []C15_Report

\* The first request failed, the second gave no connection, the third was still
\* sent and answered, and the report counts two.
C15_Witness ==
    /\ disOut.called
    /\ disOut.outcomes = <<"failed", "empty", "answered">>
    /\ Len(disOut.requests) = 3
    /\ disOut.ret.cancelledOrMissing = 2
    /\ disOut.ret.totalConnectionsChecked > 0

\* Lookup i of the call on its way completes in this step.
WxCompletes(i) ==
    /\ wxCall.active
    /\ i \in wxCall.pending
    /\ ~wxCall'.active \/ i \notin wxCall'.pending

\* C21: once a lookup that found the entry of its key expired has completed,
\* whether its fetch gave a sample or not, the cache no longer holds that entry.
C21_OneStep ==
    wxCall.active =>
        \A i \in wxCall.pending :
            (WxCompletes(i) /\ wxCall.found[i] # <<>>) =>
                EntryOf(wxCache', C20_Key(wxCall.stations[i])) # wxCall.found[i]

C21_AsStated == [][C21_OneStep]_vars

\* Lookups i and j of a call are two lookups of one cache key.
C22_SameKey(call, i, j) ==
    /\ i # j
    /\ IsTimestamp(call.stations[i].time) /\ IsTimestamp(call.stations[j].time)
    /\ C20_Key(call.stations[i]) = C20_Key(call.stations[j])

\* C22, the start: two lookups of one key that both find no fresh entry both
\* send a request.
C22_BothRequest ==
    (C20_CallStarts /\ wxCall'.active) =>
        \A i, j \in 1..Len(wxCall'.stations) :
            (/\ C22_SameKey(wxCall', i, j)
             /\ ~CacheHit(wxCache, C20_Key(wxCall'.stations[i]), wxNow)) =>
                /\ {i, j} \subseteq wxCall'.pending
                /\ wxCall'.lookups[i] = "requested" /\ wxCall'.lookups[j] = "requested"

\* C22, one answer: when the fetch of one of two such lookups builds a sample,
\* whatever the other has done, the lookup returns that new sample and the key's
\* entry is that sample with expiry 15 minutes after this write.
C22_EachWrites ==
    wxCall.active =>
        \A i \in wxCall.pending, j \in 1..Len(wxCall.stations) :
            (/\ C22_SameKey(wxCall, i, j)
             /\ wxCall.lookups[j] \in {"requested", "fetched", "failed"}
             /\ WxCompletes(i)
             /\ Len(wxHeap') > Len(wxHeap)) =>
                LET ref == Len(wxHeap')
                    samples == IF wxCall'.active THEN wxCall'.samples ELSE wxOut'.ret.samples
                IN  /\ ref = Len(wxHeap) + 1
                    /\ samples = Append(wxCall.samples, ref)
                    /\ wxCache'[C20_Key(wxCall.stations[i])] =
                           [data |-> ref, expires |-> wxNow + 900000]
                    /\ wxCall.found[i] # <<>> => wxCall.found[i][1].data # ref

\* C22, the end: when both fetches built a sample, the call returns two samples
\* and the key's entry is the one written last, fresh for 15 minutes.
C22_LastWriteStays ==
    (wxCall.active /\ ~wxCall'.active /\ ~wxCall.rejected) =>
        \A i, j \in 1..Len(wxCall.stations) :
            (/\ C22_SameKey(wxCall, i, j)
             /\ wxOut'.lookups[i] = "fetched" /\ wxOut'.lookups[j] = "fetched") =>
                LET samples == wxOut'.ret.samples
                    entry == wxCache'[C20_Key(wxCall.stations[i])]
                IN  /\ Len(samples) = 2 /\ samples[1] < samples[2]
                    /\ entry = [data |-> samples[2], expires |-> wxNow + 900000]
                    /\ \A k \in 1..2 : wxOut'.returned[k] = wxHeap'[samples[k]]

\* C22: two concurrent lookups of one key that both miss both fetch, and the
\* last write is the entry of the key.
C22_DuplicateFetch ==
    /\ [][C22_BothRequest]_vars
    /\ [][C22_EachWrites]_vars
    /\ [][C22_LastWriteStays]_vars

\* Bern and bern Wankdorf, one key, both fetched; Wankdorf was answered first and
\* Bern last, at 300000: the entry is Bern's sample and expires at 1200000.
C22_Witness ==
    /\ wxOut.called /\ ~wxOut.threw /\ wxPrev = NotCalled
    /\ wxOut.stations = <<CoordBern, CoordWankdorf>>
    /\ wxOut.lookups = <<"fetched", "fetched">>
    /\ wxOut.returned[1].station = "bern Wankdorf"
    /\ wxOut.returned[2].station = "Bern"
    /\ wxCache[C20_Key(CoordBern)] = [data |-> wxOut.ret.samples[2], expires |-> 1200000]

\* A call that has returned an insight.
C26_Returned(out) == out.called /\ ~out.threw

\* C26, the names: for every station whose lookup gave a sample, the samples
\* returned hold one that carries the name of that station.
C26_OwnName ==
    C26_Returned(wxOut) =>
        \A i \in 1..Len(wxOut.stations) :
            wxOut.lookups[i] \in {"hit", "fetched"} =>
                \E k \in 1..Len(wxOut.returned) :
                    wxOut.returned[k].station = wxOut.stations[i].name

\* C26, the earlier call: the samples it returned are still as they were returned.
C26_Unaltered ==
    C26_Returned(wxPrev) =>
        \A k \in 1..Len(wxPrev.returned) :
            wxHeap[wxPrev.ret.samples[k]] = wxPrev.returned[k]

\* C26: every sample returned carries the name of the station it was requested
\* for, two stations of one cache key included, and no later lookup alters a
\* sample already returned.
C26_AsStated == C26_OwnName /\ C26_Unaltered

\* The orders in which n lookups can complete.
C27_Orders(n) == {p \in [1..n -> 1..n] : \A a, b \in 1..n : a # b => p[a] # p[b]}

C27_Codes(reasons) == {reasons[k].code : k \in 1..Len(reasons)}

C28_NoWrite ==
    /\ wxCall.active =>
          \A i \in wxCall.pending :
              (WxCompletes(i) /\ Len(wxHeap') = Len(wxHeap)) =>
                  /\ wxCache' = wxCache
                  /\ LET lookups == IF wxCall'.active THEN wxCall'.lookups
                                    ELSE IF wxCall.rejected
                                    THEN [wxCall.lookups EXCEPT ![i] = "failed"]
                                    ELSE wxOut'.lookups
                     IN  lookups[i] = "failed"
    /\ C20_CallStarts => wxCache' = wxCache

\* C28, the next lookup: after a lookup of a key has failed, the next lookup of
\* that key sends a request unless the cache holds a fresh entry of the key.
C28_AsksAgain ==
    (C20_CallStarts /\ wxOut.called) =>
        LET started == IF wxCall'.active THEN wxCall' ELSE wxOut'
        IN  \A i \in 1..Len(wxOut.stations), j \in 1..Len(started.stations) :
                (/\ wxOut.lookups[i] = "failed"
                 /\ IsTimestamp(started.stations[j].time)
                 /\ C20_Key(started.stations[j]) = C20_Key(wxOut.stations[i])) =>
                    \/ started.lookups[j] = "requested"
                    \/ CacheHit(wxCache, C20_Key(started.stations[j]), wxNow)

\* C28: a lookup that fails writes no cache entry and removes none.
C28_FailureLeavesCache == [][C28_NoWrite]_vars /\ [][C28_AsksAgain]_vars

\* The lookup of Thun failed while Bern's gave an entry; in the next call Thun is
\* requested again and Bern is served from the cache.
C28_Witness ==
    /\ wxOut.called /\ ~wxOut.threw
    /\ wxOut.stations = <<CoordThun, CoordBern>>
    /\ wxOut.lookups = <<"failed", "fetched">>
    /\ wxCall.active
    /\ wxCall.stations = <<CoordThun, CoordBern>>
    /\ wxCall.lookups = <<"requested", "hit">>
    /\ DOMAIN wxCache = {C20_Key(CoordBern)}

\* C23, during the call: at most one request is in flight; the requests sent are
\* the first hubs of the selection, in their order, one each; and all of them but
\* the one in flight have returned or failed.
C23_OneAtATime ==
    disCall.active =>
        /\ Cardinality(disCall.inFlight) <= 1
        /\ Len(disCall.requests) <= Len(disCall.hubs)
        /\ disCall.requests = SubSeq(disCall.hubs, 1, Len(disCall.requests))
        /\ Len(disCall.requests) = Len(disCall.outcomes) + Cardinality(disCall.inFlight)
        /\ \A a, b \in 1..Len(disCall.requests) :
               a # b => disCall.requests[a] # disCall.requests[b]

\* C23, the report: every selected hub was requested exactly once, failed
\* requests included.
C23_EachOnce ==
    disOut.called =>
        /\ Len(disOut.requests) = Len(disOut.hubs)
        /\ \A k \in 1..Len(disOut.hubs) :
               Cardinality({a \in 1..Len(disOut.requests) :
                               disOut.requests[a] = disOut.hubs[k]}) = 1

\* C23: the hub requests are sent one after the other and none is sent again.
C23_Sequential == C23_OneAtATime /\ C23_EachOnce

\* The first two requests failed, the third is in flight and the fourth not sent.
C23_Witness ==
    /\ disCall.active
    /\ Len(disCall.hubs) = 4
    /\ disCall.outcomes = <<"failed", "failed">>
    /\ disCall.inFlight = {3}
    /\ disCall.requests = SubSeq(disCall.hubs, 1, 3)

\* The first word of the hub, whatever its case, occurs in the station name.
C24_FirstWordOccurs(hub) ==
    Includes(ToLowerCase(disStation), ToLowerCase(FirstWord(hub)))

\* The hubs of the fixed list whose first word does not occur in the station name.
C24_Candidates == {k \in 1..Len(MAJOR_HUBS) : ~C24_FirstWordOccurs(MAJOR_HUBS[k])}

\* C24: the hubs of routesChecked are min(4, number of candidates) different
\* hubs of the fixed list of 8, none of them a hub whose first word occurs in the
\* station name, and routesChecked has one entry per hub checked.
C24_HubsChecked ==
    disOut.called =>
        LET routes == disOut.ret.routesChecked
            candidates == {MAJOR_HUBS[c] : c \in C24_Candidates}
        IN  /\ Len(MAJOR_HUBS) = 8
            /\ Len(routes) = Min(4, Cardinality(candidates))
            /\ Len(routes) = Len(disOut.requests)
            /\ \A k \in 1..Len(routes) :
                  /\ routes[k] = <<disStation, disOut.requests[k]>>
                  /\ routes[k][2] \in candidates
            /\ \A a, b \in 1..Len(routes) : a # b => routes[a][2] # routes[b][2]

\* Five of the hubs occur in the station name, two of them in capitals: the three
\* others are checked, St. Gallen first.
C24_Witness ==
    /\ disOut.called
    /\ disStation = StationJunction
    /\ Cardinality(C24_Candidates) = 3
    /\ Len(disOut.ret.routesChecked) = 3
    /\ disOut.ret.routesChecked[1] = <<StationJunction, HubStGallen>>

\* The reasons of a pass that carry the code.
C25_ReasonsOf(pass, code) == {k \in 1..Len(pass.reasons) : pass.reasons[k].code = code}

\* What the pass added for anything but the number of transfers.
C25_OtherPenalties(pass) ==
    SumOf(pass.transferPenalties) + pass.stationPenalty + pass.peakPenalty
        + pass.delayPenalty

\* C25, the scorer on legs: the transfer-count penalty is 0.12 * (legs.length - 1),
\* added once with one reason, when there are at least two legs, and nothing
\* otherwise.
C25_CountPenalty(legs, pass) ==
    LET counted == pass.totalPenalty - C25_OtherPenalties(pass)
    IN  IF Len(legs) > 1
        THEN /\ counted = 12 * (Len(legs) - 1)
             /\ Cardinality(C25_ReasonsOf(pass, "transfers")) = 1
             /\ \A k \in C25_ReasonsOf(pass, "transfers") :
                    pass.reasons[k].penalty = 12 * (Len(legs) - 1)
        ELSE counted = 0 /\ C25_ReasonsOf(pass, "transfers") = {}

\* C25: every connection returned has one leg per section of the provider's
\* connection, walks included; its reliability is that of a pass whose
\* transfer-count penalty is counted from these legs; and its transfersCount is
\* the provider's number as it came.
C25_TransfersFromLegs ==
    Returned(connOut) =>
        \A k \in 1..Len(connOut.ret.connections) :
            LET connection == connOut.ret.connections[k]
                raw == connOut.response.connections[k]
                pass(now) ==
                    ReliabilityPass(connection.legs,
                                    OrElse(Get(raw.from, "departure"), now))
            IN  /\ connection.transfersCount = raw.transfers
                /\ Len(connection.legs) = Len(raw.sections)
                /\ \E now \in Nows : connection.reliability = ReliabilityReturn(pass(now))
                /\ \A now \in Nows : C25_CountPenalty(connection.legs, pass(now))

\* Two rides and a walk between them, for which the provider reports no transfer:
\* the penalty is that of two transfers, and transfersCount is 0.
C25_Witness ==
    /\ Returned(connOut)
    /\ connOut.response.connections = <<RawTwoRidesWalk>>
    /\ connOut.ret.connections[1].transfersCount = 0
    /\ Len(connOut.ret.connections[1].legs) = 3
    /\ connOut.ret.connections[1].legs[2].type = "walk"
    /\ \E k \in 1..Len(connOut.ret.connections[1].reliability.reasons) :
          /\ connOut.ret.connections[1].reliability.reasons[k].code = "transfers"
          /\ connOut.ret.connections[1].reliability.reasons[k].penalty = 24

\* C29: in every report, delayedConnectionsCount is at most
\* totalConnectionsChecked.
C29_AsStated ==
    disOut.called =>
        disOut.ret.delayedConnectionsCount <= disOut.ret.totalConnectionsChecked

\* The delayMinutes of the delayed routes of a report.
C30_Delays(report) ==
    {report.delayedRoutes[k].delayMinutes : k \in 1..Len(report.delayedRoutes)}

\* C30: in every report, maxDelayMinutes = 0 iff delayedRoutes is empty iff
\* averageDelayMinutes = 0; with delayed routes, 1 <= averageDelayMinutes <=
\* maxDelayMinutes and maxDelayMinutes is the largest delayMinutes of the routes;
\* and the status is "normal" only with no delayed route and cancelledOrMissing < 2.
C30_TalliesAgree ==
    disOut.called =>
        LET report == disOut.ret
            none == Len(report.delayedRoutes) = 0
        IN  /\ (report.maxDelayMinutes = 0) <=> none
            /\ (report.averageDelayMinutes = 0) <=> none
            /\ ~none =>
                  /\ 1 <= report.averageDelayMinutes
                  /\ report.averageDelayMinutes <= report.maxDelayMinutes
                  /\ report.maxDelayMinutes \in C30_Delays(report)
                  /\ \A d \in C30_Delays(report) : d <= report.maxDelayMinutes
            /\ report.status = "normal" => (none /\ report.cancelledOrMissing < 2)

\* Three hubs answered, with delays of 6, 20 and 4 minutes: the worst is 20 and
\* the mean 10.
C30_Witness ==
    /\ disOut.called
    /\ Len(disOut.ret.delayedRoutes) = 3
    /\ disOut.ret.delayedRoutes[1].delayMinutes = 6
    /\ disOut.ret.delayedRoutes[2].delayMinutes = 20
    /\ disOut.ret.delayedRoutes[3].delayMinutes = 4
    /\ disOut.ret.maxDelayMinutes = 20
    /\ disOut.ret.averageDelayMinutes = 10

====
